---- MODULE Spec2Model ----
(***************************************************************************)
(* Electron-configuration builder of SPDF-V2 (src/electron_config.js).     *)
(*                                                                         *)
(* JavaScript objects are modelled by reference: heap is the sequence of   *)
(* all objects allocated so far and an object's identity is its position   *)
(* in heap.  A subshell record is a TLA+ record (n, l, capacity and, for   *)
(* the records of a configuration, electrons); an array is a record with   *)
(* the single field items, the sequence of the identities it holds.        *)
(* Array positions are 1-based here and 0-based in the source.             *)
(***************************************************************************)
EXTENDS Integers, Sequences, FiniteSets, TLC

VARIABLES
    heap,                   \* every object allocated so far, by identity
    EXCEPTION_ADJUSTMENTS,  \* the module-level exception table
    atomicNumber,           \* the argument of the call under study
    calls,                  \* one entry per buildElectronConfiguration call
    text,                   \* last result of formatElectronConfiguration
    valence,                \* last result of computeValenceElectrons
    called,                 \* which of the two readers have run
    writes,                 \* how often a holder of a result wrote to it
    model,                  \* the outcome of the createElementModel call
    field,                  \* an orbital, a direction and what was computed
    shape,                  \* a shape configuration and what was computed
    layout,                 \* entries and the subshell groups made for them
    app                     \* the page: its element, its model and the scene

vars == <<heap, EXCEPTION_ADJUSTMENTS, atomicNumber, calls, text, valence,
          called, writes, model, field, shape,
          layout, app>>

(***************************************************************************)
(* Bounds of the model.                                                    *)
(***************************************************************************)
MaxZ == 120
NegZ == 2
MaxCalls == 3
MaxWrites == 1

MinZ == 0 - NegZ
\* Atomic numbers of the multi-call specification: an invalid one, one whose
\* rule only moves an electron and one whose rule creates a record and
\* empties another, which is pruned.
SampleZ == {0, 24, 57}

\* The integer coordinates of a direction vector lie in -MaxCoord .. MaxCoord.
MaxCoord == 2

\* baseRadius and radialScale are 1/2, 2/2, ..., MaxParam/2.
MaxParam == 2

\* power is 1, ..., MaxPower.
MaxPower == 2

\* The shell numbers handed to createSubshellGroup are -NegShell .. TopShellNumber.
NegShell == 1

\* At most MaxSelections elements are shown on the page, one after another.
MaxSelections == 3

TopShellNumber == 9

(***************************************************************************)
(* Module-level tables.                                                    *)
(***************************************************************************)
Undefined == 0

OrbitalTable ==
    << [n |-> 1, l |-> "s", capacity |-> 2],
       [n |-> 2, l |-> "s", capacity |-> 2],
       [n |-> 2, l |-> "p", capacity |-> 6],
       [n |-> 3, l |-> "s", capacity |-> 2],
       [n |-> 3, l |-> "p", capacity |-> 6],
       [n |-> 4, l |-> "s", capacity |-> 2],
       [n |-> 3, l |-> "d", capacity |-> 10],
       [n |-> 4, l |-> "p", capacity |-> 6],
       [n |-> 5, l |-> "s", capacity |-> 2],
       [n |-> 4, l |-> "d", capacity |-> 10],
       [n |-> 5, l |-> "p", capacity |-> 6],
       [n |-> 6, l |-> "s", capacity |-> 2],
       [n |-> 4, l |-> "f", capacity |-> 14],
       [n |-> 5, l |-> "d", capacity |-> 10],
       [n |-> 6, l |-> "p", capacity |-> 6],
       [n |-> 7, l |-> "s", capacity |-> 2],
       [n |-> 5, l |-> "f", capacity |-> 14],
       [n |-> 6, l |-> "d", capacity |-> 10],
       [n |-> 7, l |-> "p", capacity |-> 6] >>

\* The identity of the array ORBITAL_ORDER: its 19 elements are the objects
\* 1..19 and the array itself is the next object.
ORBITAL_ORDER == Len(OrbitalTable) + 1

\* Mutant: the table listed by shell number, 3d before 4s.
LoadedHeapByShell ==
    Append([OrbitalTable EXCEPT ![6] = OrbitalTable[7], ![7] = OrbitalTable[6]],
           [items |-> [i \in 1 .. Len(OrbitalTable) |-> i]])

\* The heap once the module is loaded.
LoadedHeap ==
    Append(OrbitalTable, [items |-> [i \in 1 .. Len(OrbitalTable) |-> i]])

\* ORDER_INDEX.get(`${n}${l}`): the Map is built once, at load, from the
\* table as it then is; a later key of the same text replaces an earlier.
ORDER_INDEX(n, l) ==
    LET hits == {i \in 1 .. Len(OrbitalTable) :
                    OrbitalTable[i].n = n /\ OrbitalTable[i].l = l}
    IN  IF hits = {} THEN Undefined
        ELSE CHOOSE i \in hits : \A j \in hits : j <= i

Move(fn, fl, tn, tl, c) ==
    << [from |-> [n |-> fn, l |-> fl, count |-> c],
        to   |-> [n |-> tn, l |-> tl, count |-> c]] >>

ExceptionTable ==
    (24 :> Move(4, "s", 3, "d", 1)) @@ (29 :> Move(4, "s", 3, "d", 1)) @@
    (41 :> Move(5, "s", 4, "d", 1)) @@ (42 :> Move(5, "s", 4, "d", 1)) @@
    (44 :> Move(5, "s", 4, "d", 1)) @@ (45 :> Move(5, "s", 4, "d", 1)) @@
    (46 :> Move(5, "s", 4, "d", 2)) @@ (47 :> Move(5, "s", 4, "d", 1)) @@
    (57 :> Move(4, "f", 5, "d", 1)) @@ (58 :> Move(4, "f", 5, "d", 1)) @@
    (64 :> Move(4, "f", 5, "d", 1)) @@ (78 :> Move(6, "s", 5, "d", 1)) @@
    (79 :> Move(6, "s", 5, "d", 1)) @@ (89 :> Move(5, "f", 6, "d", 1)) @@
    (90 :> Move(5, "f", 6, "d", 2)) @@ (91 :> Move(5, "f", 6, "d", 1)) @@
    (92 :> Move(5, "f", 6, "d", 1)) @@ (93 :> Move(5, "f", 6, "d", 1)) @@
    (96 :> Move(5, "f", 6, "d", 1)) @@ (103 :> Move(6, "d", 7, "p", 1))

(***************************************************************************)
(* Helpers of the JavaScript runtime.                                      *)
(***************************************************************************)
MathMin(a, b) == IF a <= b THEN a ELSE b
MathMax(a, b) == IF a >= b THEN a ELSE b

\* The record values an array holds, in order.
Values(h, a) == [k \in 1 .. Len(h[a].items) |-> h[h[a].items[k]]]

\* array.find((c) => c.n === n && c.l === l): the first match, or undefined.
ArrayFind(h, a, n, l) ==
    LET items == h[a].items
        hits  == {k \in 1 .. Len(items) :
                     h[items[k]].n = n /\ h[items[k]].l = l}
    IN  IF hits = {} THEN Undefined
        ELSE items[CHOOSE k \in hits : \A j \in hits : k <= j]

\* array.push(x)
ArrayPush(h, a, x) == [h EXCEPT ![a].items = Append(@, x)]

\* array.splice(at, 0, x), at being the 1-based position x ends up at.
ArrayInsert(h, a, at, x) ==
    [h EXCEPT ![a].items =
        SubSeq(@, 1, at - 1) \o <<x>> \o SubSeq(@, at, Len(@))]

\* array.splice(at, 1)
ArrayRemove(h, a, at) ==
    [h EXCEPT ![a].items = SubSeq(@, 1, at - 1) \o SubSeq(@, at + 1, Len(@))]

\* { ...orbital, electrons }: a new object with orbital's own properties and
\* electrons set.
Spread(o, electrons) ==
    [f \in DOMAIN o \cup {"electrons"} |->
        IF f = "electrons" THEN electrons ELSE o[f]]

(***************************************************************************)
(* ensureEntry                                                             *)
(***************************************************************************)
\* Mutant: the comparison of the insertion loop reversed.
LaterReversed(idx, orderIndex) == idx # Undefined /\ idx < orderIndex

\* idx !== undefined && idx > orderIndex
Later(idx, orderIndex) == idx # Undefined /\ idx > orderIndex

\* The loop of ensureEntry: the position of the first record whose
\* filling-order index is later than orderIndex, config.length when none is.
InsertAt(h, config, orderIndex) ==
    LET items == h[config].items
        hits  == {k \in 1 .. Len(items) :
                     Later(ORDER_INDEX(h[items[k]].n, h[items[k]].l),
                           orderIndex)}
    IN  IF hits = {} THEN Len(items) + 1
        ELSE CHOOSE k \in hits : \A j \in hits : k <= j

ensureEntry(h, config, n, l) ==
    LET entry == ArrayFind(h, config, n, l)
        template == ArrayFind(h, ORBITAL_ORDER, n, l)
    IN  IF entry # Undefined THEN [heap |-> h, ret |-> entry]
        ELSE IF template = Undefined THEN [heap |-> h, ret |-> Undefined]
        ELSE
            LET h1 == Append(h, [n |-> n, l |-> l,
                                 capacity |-> h[template].capacity,
                                 electrons |-> 0])
                new == Len(h1)
                orderIndex == ORDER_INDEX(n, l)
            IN  IF orderIndex = Undefined
                THEN [heap |-> ArrayPush(h1, config, new), ret |-> new]
                ELSE [heap |-> ArrayInsert(h1, config,
                                           InsertAt(h1, config, orderIndex),
                                           new),
                      ret  |-> new]

(***************************************************************************)
(* applyExceptions                                                         *)
(***************************************************************************)
\* Mutant: the source is floored at one electron instead of none.
DebitFloorOne(electrons, count) == MathMax(1, electrons - count)

\* Math.max(0, target.electrons - from.count)
Debit(electrons, count) == MathMax(0, electrons - count)

\* Mutant: the destination gains one electron whatever the rule's count.
CreditOne(capacity, electrons, count) == MathMin(capacity, electrons + 1)

\* Math.min(dest.capacity, dest.electrons + to.count)
Credit(capacity, electrons, count) == MathMin(capacity, electrons + count)

\* The from clause of one rule.
TakeFrom(h, config, op) ==
    IF "from" \in DOMAIN op
    THEN LET target == ArrayFind(h, config, op.from.n, op.from.l)
         IN  IF target # Undefined
             THEN [h EXCEPT ![target].electrons = Debit(@, op.from.count)]
             ELSE h
    ELSE h

\* The to clause of one rule.
GiveTo(h, config, op) ==
    IF "to" \in DOMAIN op
    THEN LET e == ensureEntry(h, config, op.to.n, op.to.l)
         IN  IF e.ret # Undefined
             THEN [e.heap EXCEPT ![e.ret].electrons =
                      Credit(e.heap[e.ret].capacity, @, op.to.count)]
             ELSE e.heap
    ELSE h

\* ops.forEach(...), from rule i on.
RECURSIVE ApplyOps(_, _, _, _)
ApplyOps(h, config, ops, i) ==
    IF i > Len(ops) THEN h
    ELSE ApplyOps(GiveTo(TakeFrom(h, config, ops[i]), config, ops[i]),
                  config, ops, i + 1)

\* Mutant: no pruning.
PruneNothing(h, config, i) == h

\* The pruning loop, from position i down to the first.
RECURSIVE Prune(_, _, _)
Prune(h, config, i) ==
    IF i < 1 THEN h
    ELSE IF h[h[config].items[i]].electrons <= 0
         THEN Prune(ArrayRemove(h, config, i), config, i - 1)
         ELSE Prune(h, config, i - 1)

applyExceptions(h, config, Z) ==
    IF Z \notin DOMAIN EXCEPTION_ADJUSTMENTS THEN h
    ELSE LET h1 == ApplyOps(h, config, EXCEPTION_ADJUSTMENTS[Z], 1)
         IN  Prune(h1, config, Len(h1[config].items))

(***************************************************************************)
(* buildElectronConfiguration                                              *)
(***************************************************************************)
\* Mutant: config hoisted to module scope, one array for every call.
NewArrayOnce(h) ==
    IF Len(h) > ORBITAL_ORDER THEN [heap |-> h, ret |-> ORBITAL_ORDER + 1]
    ELSE [heap |-> Append(h, [items |-> <<>>]), ret |-> Len(h) + 1]

\* const config = []
NewArray(h) == [heap |-> Append(h, [items |-> <<>>]), ret |-> Len(h) + 1]

\* Mutant: the loop stops only below zero.
ExhaustedBelowZero(remaining) == remaining < 0

\* Mutant: the loop stops only at exactly zero.
ExhaustedAtZero(remaining) == remaining = 0

\* if (remaining <= 0) break
Exhausted(remaining) == remaining <= 0

\* Mutant: every visited slot is filled to capacity.
AssignedFull(capacity, remaining) == capacity

\* Mutant: one electron to every visited slot.
AssignedOne(capacity, remaining) == MathMin(1, remaining)

\* Mutant: the slot takes all that remains.
AssignedAll(capacity, remaining) == remaining

\* Math.min(orbital.capacity, remaining)
Assigned(capacity, remaining) == MathMin(capacity, remaining)

\* Mutant: the table's own object is pushed, with electrons set on it.
PushShared(h, config, orbital, electrons) ==
    ArrayPush([h EXCEPT ![orbital] = Spread(@, electrons)], config, orbital)

\* config.push({ ...orbital, electrons })
PushCopy(h, config, orbital, electrons) ==
    LET h1 == Append(h, Spread(h[orbital], electrons))
    IN  ArrayPush(h1, config, Len(h1))

\* The for-of loop over ORBITAL_ORDER, from element i on.
RECURSIVE Fill(_, _, _, _)
Fill(h, config, i, remaining) ==
    IF i > Len(h[ORBITAL_ORDER].items) \/ Exhausted(remaining) THEN h
    ELSE LET orbital == h[ORBITAL_ORDER].items[i]
             electrons == Assigned(h[orbital].capacity, remaining)
         IN  Fill(PushCopy(h, config, orbital, electrons), config, i + 1,
                  remaining - electrons)

\* The result also carries filled, the values of config after the loop and
\* before applyExceptions, for the properties that speak of the baseline.
buildElectronConfiguration(h, Z) ==
    LET a  == NewArray(h)
        h1 == Fill(a.heap, a.ret, 1, Z)
        h2 == applyExceptions(h1, a.ret, Z)
    IN  [heap |-> h2, ret |-> a.ret, filled |-> Values(h1, a.ret)]

(***************************************************************************)
(* formatElectronConfiguration                                             *)
(*                                                                         *)
(* A string is the sequence of its characters.                             *)
(***************************************************************************)
Digit(d) == <<"0", "1", "2", "3", "4", "5", "6", "7", "8", "9">>[d + 1]

\* The decimal text of a natural number.
RECURSIVE Decimal(_)
Decimal(k) == IF k < 10 THEN <<Digit(k)>>
              ELSE Decimal(k \div 10) \o <<Digit(k % 10)>>

\* `${x}` of an integer.
NumberText(x) == IF x < 0 THEN <<"-">> \o Decimal(0 - x) ELSE Decimal(x)

\* `${entry.n}${entry.l}${entry.electrons}`
Token(entry) ==
    NumberText(entry.n) \o <<entry.l>> \o NumberText(entry.electrons)

\* Mutant: every token is followed by the separator, the last one too.
RECURSIVE JoinTrailing(_, _, _)
JoinTrailing(tokens, sep, i) ==
    IF i > Len(tokens) THEN <<>>
    ELSE tokens[i] \o sep \o JoinTrailing(tokens, sep, i + 1)

\* tokens.join(sep), from token i on.
RECURSIVE Join(_, _, _)
Join(tokens, sep, i) ==
    IF i > Len(tokens) THEN <<>>
    ELSE IF i = Len(tokens) THEN tokens[i]
    ELSE tokens[i] \o sep \o Join(tokens, sep, i + 1)

formatElectronConfiguration(h, config) ==
    LET entries == Values(h, config)
    IN  Join([k \in 1 .. Len(entries) |-> Token(entries[k])], <<" ">>, 1)

(***************************************************************************)
(* computeValenceElectrons                                                 *)
(***************************************************************************)
\* The forEach that raises maxShell, from entry i on.
RECURSIVE RaiseShell(_, _, _)
RaiseShell(entries, i, maxShell) ==
    IF i > Len(entries) THEN maxShell
    ELSE RaiseShell(entries, i + 1,
                    IF entries[i].n > maxShell THEN entries[i].n
                    ELSE maxShell)

\* Mutant: the shell of the last record is taken for the highest.
LastShell(entries) ==
    IF entries = <<>> THEN 0 ELSE entries[Len(entries)].n

\* let maxShell = 0; config.forEach(...)
MaxShell(entries) == RaiseShell(entries, 1, 0)

\* filter((entry) => entry.n === maxShell).reduce(sum + electrons, 0)
RECURSIVE SumShell(_, _, _, _)
SumShell(entries, maxShell, i, sum) ==
    IF i > Len(entries) THEN sum
    ELSE SumShell(entries, maxShell, i + 1,
                  IF entries[i].n = maxShell THEN sum + entries[i].electrons
                  ELSE sum)

computeValenceElectrons(h, config) ==
    LET entries == Values(h, config)
    IN  SumShell(entries, MaxShell(entries), 1, 0)

(***************************************************************************)
(* orbitals.js: the angular field.                                         *)
(*                                                                         *)
(* Numbers are reals, held exactly.  A coordinate is p + q*sqrt(3) with    *)
(* integers p and q, written <<p, q>>.  A direction is the unit vector     *)
(* v / |v| of a vector v of such coordinates, held as v.  A value computed *)
(* from a direction is held as [num, den, deg], standing for               *)
(* num / (den * |v|^deg).                                                  *)
(***************************************************************************)
Real(n) == <<n, 0>>

Plus(a, b) == <<a[1] + b[1], a[2] + b[2]>>

Minus(a, b) == <<a[1] - b[1], a[2] - b[2]>>

Times(a, b) == <<a[1] * b[1] + 3 * a[2] * b[2], a[1] * b[2] + a[2] * b[1]>>

IntSign(n) == IF n > 0 THEN 1 ELSE IF n < 0 THEN -1 ELSE 0

\* Math.sign of p + q*sqrt(3).
MathSign(a) ==
    IF IntSign(a[1]) * IntSign(a[2]) >= 0
    THEN IntSign(a[1] + a[2])
    ELSE IntSign(a[1]) * IntSign(a[1] * a[1] - 3 * a[2] * a[2])

RECURSIVE Power(_, _)
Power(a, k) == IF k = 0 THEN Real(1) ELSE Times(a, Power(a, k - 1))

\* THREE.Vector3
Vector3(x, y, z) == [x |-> x, y |-> y, z |-> z]

Dot(u, v) == Plus(Plus(Times(u.x, v.x), Times(u.y, v.y)), Times(u.z, v.z))

\* |v|^2
LengthSq(v) == Dot(v, v)

\* With dir = v / |v|: cosT = y is v.y / |v|; sinT = sqrt(1 - cosT^2) is
\* rho / |v| for rho = sqrt(v.x^2 + v.z^2); phi = atan2(z, x) has
\* cos(phi) = v.x / rho and sin(phi) = v.z / rho, and at the poles
\* (rho = 0) phi = atan2(0, 0) = 0 and sinT = 0.
cosT(v) == [num |-> v.y, den |-> 1, deg |-> 1]

\* Mutant: the azimuth taken about the other axis.
sinTcosSwapped(v) == [num |-> v.z, den |-> 1, deg |-> 1]

\* sinT * cos(phi) = v.x / |v|, also at the poles, where both sides are 0.
sinTcos(v) == [num |-> v.x, den |-> 1, deg |-> 1]

\* sinT * sin(phi) = v.z / |v|
sinTsin(v) == [num |-> v.z, den |-> 1, deg |-> 1]

\* sinT^2 * cos(2 phi) = (v.x^2 - v.z^2) / |v|^2
sinT2cos2(v) ==
    [num |-> Minus(Times(v.x, v.x), Times(v.z, v.z)), den |-> 1, deg |-> 2]

\* sinT^2 * sin(2 phi) = 2 v.x v.z / |v|^2
sinT2sin2(v) ==
    [num |-> Times(Real(2), Times(v.x, v.z)), den |-> 1, deg |-> 2]

\* sinT^3 * cos(3 phi) = (v.x^3 - 3 v.x v.z^2) / |v|^3
sinT3cos3(v) ==
    [num |-> Minus(Power(v.x, 3),
                   Times(Real(3), Times(v.x, Times(v.z, v.z)))),
     den |-> 1, deg |-> 3]

\* sinT^3 * sin(3 phi) = (3 v.x^2 v.z - v.z^3) / |v|^3
sinT3sin3(v) ==
    [num |-> Minus(Times(Real(3), Times(Times(v.x, v.x), v.z)),
                   Power(v.z, 3)),
     den |-> 1, deg |-> 3]

\* The product of two values.
Product(a, b) ==
    [num |-> Times(a.num, b.num), den |-> a.den * b.den,
     deg |-> a.deg + b.deg]

\* Mutant: 0.5 * a left out.
Whole(a) == a

\* 0.5 * a
Half(a) == [a EXCEPT !.den = 2 * a.den]

\* k * cosT * cosT - c, for numbers k and c: (k v.y^2 - c |v|^2) / |v|^2
cosT2Less(v, k, c) ==
    [num |-> Minus(Times(Real(k), Times(v.y, v.y)),
                   Times(Real(c), LengthSq(v))),
     den |-> 1, deg |-> 2]

\* Mutant: the default amplitude is 0.
Nought == [num |-> Real(0), den |-> 1, deg |-> 0]

\* The number 1.0
One == [num |-> Real(1), den |-> 1, deg |-> 0]

\* new THREE.Vector3(x, y, z) with integer coordinates.
Axis(x, y, z) == Vector3(Real(x), Real(y), Real(z))

\* The direction of (sin(a), 0, cos(a)) for a = PI/3 and a = 2 PI/3:
\* (sqrt(3)/2, 0, 1/2) and (sqrt(3)/2, 0, -1/2), held doubled.
Sin60Cos60 == Vector3(<<0, 1>>, Real(0), Real(1))

Sin120Cos120 == Vector3(<<0, 1>>, Real(0), Real(-1))

\* createPlaneNode(normal): the plane through the origin with that normal.
createPlaneNode(normal) == [type |-> "plane", normal |-> normal]

\* createDoubleConeNode(cosTheta): the cones about the y axis with
\* cos(theta) = +- cosTheta; cosTheta is the positive root of a / b.
createDoubleConeNode(a, b) == [type |-> "cone", cosThetaSq |-> <<a, b>>]

\* The planes and cones buildNodalGroup adds for a family and variant.
NodalChildren(family, variant) ==
    CASE family = "s" -> <<>>
      [] family = "p" ->
            IF variant = "px" THEN <<createPlaneNode(Axis(1, 0, 0))>>
            ELSE IF variant = "py" THEN <<createPlaneNode(Axis(0, 1, 0))>>
            ELSE <<createPlaneNode(Axis(0, 0, 1))>>
      [] family = "d" ->
            IF variant = "dz2" THEN <<createDoubleConeNode(1, 3)>>
            ELSE IF variant = "dxz"
            THEN <<createPlaneNode(Axis(1, 0, 0)),
                   createPlaneNode(Axis(0, 0, 1))>>
            ELSE IF variant = "dyz"
            THEN <<createPlaneNode(Axis(0, 1, 0)),
                   createPlaneNode(Axis(0, 0, 1))>>
            ELSE IF variant = "dxy"
            THEN <<createPlaneNode(Axis(1, 0, 0)),
                   createPlaneNode(Axis(0, 1, 0))>>
            ELSE <<createPlaneNode(Axis(1, 1, 0)),
                   createPlaneNode(Axis(1, -1, 0))>>
      [] family = "f" ->
            IF variant = "fz3"
            THEN <<createPlaneNode(Axis(0, 1, 0)),
                   createDoubleConeNode(3, 5)>>
            ELSE IF variant = "fxz2"
            THEN <<createPlaneNode(Axis(1, 0, 0)),
                   createDoubleConeNode(1, 5)>>
            ELSE IF variant = "fyz2"
            THEN <<createPlaneNode(Axis(0, 1, 0)),
                   createDoubleConeNode(1, 5)>>
            ELSE IF variant = "fzx2y2"
            THEN <<createPlaneNode(Axis(0, 0, 1)),
                   createPlaneNode(Axis(1, 1, 0)),
                   createPlaneNode(Axis(1, -1, 0))>>
            ELSE IF variant = "fxyz"
            THEN <<createPlaneNode(Axis(1, 0, 0)),
                   createPlaneNode(Axis(0, 1, 0)),
                   createPlaneNode(Axis(0, 0, 1))>>
            ELSE IF variant = "fcos3"
            THEN <<createPlaneNode(Axis(0, 0, 1)),
                   createPlaneNode(Sin60Cos60),
                   createPlaneNode(Sin120Cos120)>>
            ELSE IF variant = "fsin3"
            THEN <<createPlaneNode(Axis(1, 0, 0)),
                   createPlaneNode(Sin60Cos60),
                   createPlaneNode(Sin120Cos120)>>
            ELSE <<createPlaneNode(Axis(0, 1, 0))>>
      [] OTHER -> <<>>

\* buildNodalGroup(cfg, size): null (<<>>) without children, else the
\* hidden group of the nodal surfaces.
buildNodalGroup(cfg) ==
    LET children == NodalChildren(cfg.family, cfg.variant)
    IN  IF Len(children) = 0 THEN <<>>
        ELSE <<[name |-> "nodes", visible |-> FALSE, children |-> children]>>

\* evaluateOrbitalAmplitude(family, variant, dir), dir = v / |v|.
evaluateOrbitalAmplitude(family, variant, v) ==
    CASE family = "s" -> One
      [] family = "p" ->
            IF variant = "px" THEN sinTcos(v)
            ELSE IF variant = "py" THEN sinTsin(v)
            ELSE cosT(v)
      [] family = "d" ->
            IF variant = "dz2" THEN Half(cosT2Less(v, 3, 1))
            ELSE IF variant = "dxz" THEN Product(sinTcos(v), cosT(v))
            ELSE IF variant = "dyz" THEN Product(sinTsin(v), cosT(v))
            ELSE IF variant = "dxy" THEN sinT2sin2(v)
            ELSE sinT2cos2(v)
      [] family = "f" ->
            IF variant = "fz3"
            THEN Half(Product(cosT(v), cosT2Less(v, 5, 3)))
            ELSE IF variant = "fxz2"
            THEN Half(Product(sinTcos(v), cosT2Less(v, 5, 1)))
            ELSE IF variant = "fyz2"
            THEN Half(Product(sinTsin(v), cosT2Less(v, 5, 1)))
            ELSE IF variant = "fzx2y2" THEN Product(sinT2cos2(v), cosT(v))
            ELSE IF variant = "fxyz" THEN Product(sinT2sin2(v), cosT(v))
            ELSE IF variant = "fcos3" THEN sinT3cos3(v)
            ELSE IF variant = "fsin3" THEN sinT3sin3(v)
            ELSE Half(Product(cosT(v), cosT2Less(v, 5, 3)))
      [] OTHER -> One

(***************************************************************************)
(* orbitals.js: the radius field and the signed distance.                  *)
(*                                                                         *)
(* Here positions have integer coordinates and an integer length, so that  *)
(* every value is a rational a / b, written <<a, b>> in lowest terms with  *)
(* b > 0.  A field a configuration lacks is Missing.                       *)
(***************************************************************************)
Missing == <<>>

RECURSIVE Gcd(_, _)
Gcd(a, b) == IF b = 0 THEN a ELSE Gcd(b, a % b)

IntAbs(n) == IF n < 0 THEN 0 - n ELSE n

\* a / b in lowest terms.
Rat(a, b) ==
    LET g == Gcd(IntAbs(a), IntAbs(b))
    IN  IF b < 0 THEN <<(0 - a) \div g, (0 - b) \div g>>
        ELSE <<a \div g, b \div g>>

RatPlus(a, b) ==
    LET g == Gcd(a[2], b[2])
    IN  Rat(a[1] * (b[2] \div g) + b[1] * (a[2] \div g),
            a[2] * (b[2] \div g))

RatNeg(a) == <<0 - a[1], a[2]>>

RatTimes(a, b) ==
    LET g == Gcd(IntAbs(a[1]), b[2])
        h == Gcd(IntAbs(b[1]), a[2])
    IN  Rat((a[1] \div g) * (b[1] \div h), (a[2] \div h) * (b[2] \div g))

\* a <= b
RatLeq(a, b) ==
    LET g == Gcd(a[2], b[2])
    IN  a[1] * (b[2] \div g) <= b[1] * (a[2] \div g)

\* Mutant: the amplitude with its sign.
Signed(a) == a

\* Math.abs
MathAbs(a) == <<IntAbs(a[1]), a[2]>>

RECURSIVE IntPow(_, _)
IntPow(a, k) == IF k = 0 THEN Rat(1, 1) ELSE RatTimes(a, IntPow(a, k - 1))

\* Math.pow(a, power) for a >= 0 and power > 0, where it is rational: for a
\* whole power, and for a = 0 and a = 1.
MathPow(a, power) ==
    CASE a = Rat(0, 1) -> Rat(0, 1)
      [] a = Rat(1, 1) -> Rat(1, 1)
      [] a \notin {Rat(0, 1), Rat(1, 1)} /\ power[2] = 1
             -> IntPow(a, power[1])

\* x ?? d
Nullish(x, d) == IF x = Missing THEN d ELSE x

\* position.length()
Length(v) ==
    LET sq == LengthSq(v)[1]
    IN  CHOOSE n \in 0 .. sq : n * n = sq

\* The value num / (den * |v|^deg) as a rational.
AsRational(a, v) == Rat(a.num[1], a.den * (Length(v) ^ a.deg))

\* Mutant: the radius of the core, without the lobes.
evaluateOrbitalRadiusOfCore(config, v) == config.baseRadius

\* evaluateOrbitalRadius(config, dir), dir = v / |v|.
evaluateOrbitalRadius(config, v) ==
    LET amp == MathAbs(AsRational(
                   evaluateOrbitalAmplitude(config.family, config.variant, v),
                   v))
        power == Nullish(config.power, Rat(1, 1))
        radialScale == Nullish(config.radialScale, Rat(0, 1))
    IN  RatTimes(config.baseRadius,
                 RatPlus(Rat(1, 1), RatTimes(radialScale, MathPow(amp, power))))

\* Mutant: the sign alone, 0 for an amplitude of 0.
PhaseOfSign(amp) == IntSign(amp[1])

\* Math.sign(amp) || 1
Phase(amp) == IF IntSign(amp[1]) = 0 THEN 1 ELSE IntSign(amp[1])

\* Mutant: the exponent of the mesh where the configuration has none.
SdfPowerOfMesh(config) == Nullish(config.power, Rat(2, 1))

\* config.power ?? 1.0, in evaluateOrbitalSDF
SdfPower(config) == Nullish(config.power, Rat(1, 1))

\* evaluateOrbitalSDF(config, position)
evaluateOrbitalSDF(config, position) ==
    LET len == Length(position)
        amp == AsRational(
                   evaluateOrbitalAmplitude(config.family, config.variant,
                                            position),
                   position)
        radius == RatTimes(config.baseRadius,
                      RatPlus(Rat(1, 1),
                              RatTimes(Nullish(config.radialScale, Rat(0, 1)),
                                       MathPow(MathAbs(amp),
                                               SdfPower(config)))))
    IN  IF len = 0
        THEN [distance  |-> RatNeg(config.baseRadius),
              phase     |-> 1,
              amplitude |-> Rat(1, 1)]
        ELSE [distance  |-> RatPlus(Rat(len, 1), RatNeg(radius)),
              phase     |-> Phase(amp),
              amplitude |-> amp]

(***************************************************************************)
(* orbitals.js: the mesh.                                                  *)
(*                                                                         *)
(* Math.pow(t, 0.35) is rational only for t = 0 and t = 1.  A value that   *)
(* contains it is held as [rational, coeff, root], standing for            *)
(* rational + coeff * root^0.35, with coeff = root = 0 where no such term  *)
(* remains.                                                                *)
(***************************************************************************)
\* Math.pow(t, 0.35) for t >= 0
Pow035(t) ==
    IF t \in {Rat(0, 1), Rat(1, 1)}
    THEN [rational |-> t, coeff |-> Rat(0, 1), root |-> Rat(0, 1)]
    ELSE [rational |-> Rat(0, 1), coeff |-> Rat(1, 1), root |-> t]

\* THREE.MathUtils.lerp(x, y, t) = x + (y - x) * t, for rationals x and y.
Lerp(x, y, t) ==
    LET coeff == RatTimes(RatPlus(y, RatNeg(x)), t.coeff)
    IN  [rational |-> RatPlus(x, RatTimes(RatPlus(y, RatNeg(x)), t.rational)),
         coeff    |-> coeff,
         root     |-> IF coeff = Rat(0, 1) THEN Rat(0, 1) ELSE t.root]

\* Mutant: no waist at the nodes of any family.
NodeFloorOfSphere(family) == Rat(1, 1)

\* family === 's' ? 1.0 : 0.22
NodeFloor(family) == IF family = "s" THEN Rat(1, 1) ELSE Rat(22, 100)

\* family === 's' ? 1.0 : lerp(nodeFloor, 1.0, Math.pow(Math.abs(ampRaw), 0.35))
BaseBlend(family, ampRaw) ==
    IF family = "s"
    THEN [rational |-> Rat(1, 1), coeff |-> Rat(0, 1), root |-> Rat(0, 1)]
    ELSE Lerp(NodeFloor(family), Rat(1, 1), Pow035(MathAbs(ampRaw)))

\* Mutant: the magnitude grows with the exponent.
AmpMagLinear(ampRaw, power) == RatTimes(MathAbs(ampRaw), power)

\* Math.pow(Math.abs(ampRaw), power)
AmpMag(ampRaw, power) == MathPow(MathAbs(ampRaw), power)

\* One pass of the vertex loop of buildOrbitalMesh: the radius the vertex in
\* direction v / |v| is moved to, its sign and its magnitude.
Displaced(cfg, v) ==
    LET ampRaw == AsRational(
                      evaluateOrbitalAmplitude(cfg.family, cfg.variant, v), v)
        ampMag == AmpMag(ampRaw, cfg.power)
        baseBlend == BaseBlend(cfg.family, ampRaw)
    IN  [r     |-> [rational |-> RatTimes(cfg.baseRadius,
                                     RatPlus(baseBlend.rational,
                                             RatTimes(cfg.radialScale,
                                                      ampMag))),
                    coeff    |-> RatTimes(cfg.baseRadius, baseBlend.coeff),
                    root     |-> baseBlend.root],
         phase |-> Phase(ampRaw),
         amp   |-> ampMag]

\* The nodal group a mesh carries: none (<<>>) unless enabled and the
\* builder returns one; its visibility is showNodes.
NodesGroup(cfg, enableNodes, showNodes) ==
    IF enableNodes /\ buildNodalGroup(cfg) # <<>>
    THEN <<[buildNodalGroup(cfg)[1] EXCEPT !.visible = showNodes]>>
    ELSE <<>>

\* buildOrbitalMesh(config) over a sphere whose vertices lie in the given
\* directions; the fields the configuration lacks take their defaults.
buildOrbitalMesh(config, vertices, enableNodes, showNodes) ==
    LET cfg == [family      |-> config.family,
                variant     |-> config.variant,
                baseRadius  |-> config.baseRadius,
                radialScale |-> IF config.radialScale = Missing
                                THEN Rat(12, 10) ELSE config.radialScale,
                power       |-> IF config.power = Missing
                                THEN Rat(16, 10) ELSE config.power]
    IN  [orbital    |-> [family |-> cfg.family, variant |-> cfg.variant],
         cfg        |-> cfg,
         position   |-> [v \in vertices |-> Displaced(cfg, v)],
         nodesGroup |-> NodesGroup(cfg, enableNodes, showNodes)]

(***************************************************************************)
(* atom_spdf.js: the model of an element.                                  *)
(***************************************************************************)
\* FAMILY_VARIANTS[family] || []
getVariants(family) ==
    CASE family = "s" -> <<"s">>
      [] family = "p" -> <<"px", "py", "pz">>
      [] family = "d" -> <<"dz2", "dxz", "dyz", "dxy", "dx2y2">>
      [] family = "f" -> <<"fz3", "fxz2", "fyz2", "fzx2y2", "fxyz", "fcos3",
                           "fsin3">>
      [] OTHER -> <<>>

\* SHELL_BASE_RADIUS[n], Missing off the table.
SHELL_BASE_RADIUS(n) ==
    IF n \in 1 .. 7
    THEN <<Rat(55, 100), Rat(95, 100), Rat(145, 100), Rat(195, 100),
           Rat(245, 100), Rat(295, 100), Rat(345, 100)>>[n]
    ELSE Missing

FAMILY_RADIUS_OFFSET(family) ==
    CASE family = "s" -> Rat(0, 1)
      [] family = "p" -> Rat(18, 100)
      [] family = "d" -> Rat(38, 100)
      [] family = "f" -> Rat(58, 100)
      [] OTHER -> Missing

FAMILY_BASE_SCALE(family) ==
    CASE family = "s" -> Rat(1, 1)
      [] family = "p" -> Rat(90, 100)
      [] family = "d" -> Rat(88, 100)
      [] family = "f" -> Rat(94, 100)
      [] OTHER -> Missing

FAMILY_RADIAL_SCALE(family) ==
    CASE family = "s" -> Rat(105, 100)
      [] family = "p" -> Rat(165, 100)
      [] family = "d" -> Rat(145, 100)
      [] family = "f" -> Rat(118, 100)
      [] OTHER -> Missing

FAMILY_POWER(family) ==
    CASE family = "s" -> Rat(135, 100)
      [] family = "p" -> Rat(205, 100)
      [] family = "d" -> Rat(190, 100)
      [] family = "f" -> Rat(195, 100)
      [] OTHER -> Missing

\* DEFAULT_COATS[family].opacity
CoatOpacity(family) ==
    CASE family = "s" -> Rat(28, 100)
      [] family = "p" -> Rat(35, 100)
      [] family = "d" -> Rat(26, 100)
      [] family = "f" -> Rat(22, 100)

RatMin(a, b) == IF RatLeq(a, b) THEN a ELSE b

RatMax(a, b) == IF RatLeq(a, b) THEN b ELSE a

\* Mutant: the shells beyond the table start over.
ExtrapolatedFromTable(n) == Rat(55 + 50 * MathMax(0, n - 8), 100)

\* 0.55 + 0.5 * Math.max(0, n - 1)
Extrapolated(n) == Rat(55 + 50 * MathMax(0, n - 1), 100)

\* getBaseRadius(n, family)
getBaseRadius(n, family) ==
    LET base == Nullish(SHELL_BASE_RADIUS(n), Extrapolated(n))
        offset == Nullish(FAMILY_RADIUS_OFFSET(family), Rat(0, 1))
        scale == Nullish(FAMILY_BASE_SCALE(family), Rat(1, 1))
    IN  RatTimes(RatPlus(base, offset), scale)

\* Math.max(0, Math.min(1, occupancy))
Clamped(occupancy) == RatMax(Rat(0, 1), RatMin(Rat(1, 1), occupancy))

\* Mutant: the two weights exchanged.
computeOpacityFromFull(baseOpacity, occupancy) ==
    RatTimes(baseOpacity,
             RatPlus(Rat(45, 100), RatTimes(Rat(55, 100), occupancy)))

\* computeOpacity(baseOpacity, occupancy)
computeOpacity(baseOpacity, occupancy) ==
    RatTimes(baseOpacity,
             RatPlus(Rat(55, 100), RatTimes(Rat(45, 100), Clamped(occupancy))))

\* electrons / (capacity || 1)
Occupancy(entry) ==
    Rat(entry.electrons, IF entry.capacity = 0 THEN 1 ELSE entry.capacity)

\* createOrbital(config): the mesh of buildOrbitalMesh with its
\* orbitalConfig and the opacity of its material; nodes are enabled and
\* hidden.  The vertices of the sphere are left out here.
createOrbital(config, opacity) ==
    LET mesh == buildOrbitalMesh(config, {}, TRUE, FALSE)
    IN  [orbital       |-> mesh.orbital,
         orbitalConfig |-> mesh.cfg,
         opacity       |-> opacity,
         nodesGroup    |-> mesh.nodesGroup]

\* The mesh of one variant, with the shell it is tagged with.
OrbitalOf(entry, variants, idx) ==
    [shell |-> [n |-> entry.n, l |-> entry.l, electrons |-> entry.electrons,
                capacity |-> entry.capacity, index |-> idx - 1]]
    @@ createOrbital(
           [family      |-> entry.l,
            variant     |-> variants[idx],
            baseRadius  |-> getBaseRadius(entry.n, entry.l),
            radialScale |-> Nullish(FAMILY_RADIAL_SCALE(entry.l),
                                    Rat(11, 10)),
            power       |-> Nullish(FAMILY_POWER(entry.l), Rat(16, 10))],
           computeOpacity(CoatOpacity(entry.l), Occupancy(entry)))

\* createSubshellGroup(entry, ...): no group (<<>>) for a family without
\* variants, else the group with one mesh per variant.
createSubshellGroup(entry) ==
    LET variants == getVariants(entry.l)
    IN  IF Len(variants) = 0 THEN <<>>
        ELSE <<[type      |-> "subshell",
                name      |-> NumberText(entry.n) \o <<entry.l>>,
                family    |-> entry.l,
                electrons |-> entry.electrons,
                capacity  |-> entry.capacity,
                occupancy |-> Occupancy(entry),
                children  |-> [idx \in 1 .. Len(variants) |->
                                  OrbitalOf(entry, variants, idx)]]>>

\* resolvedConfig.forEach: the subshell groups added to the model, from
\* record i of the configuration on.
RECURSIVE Subshells(_, _)
Subshells(entries, i) ==
    IF i > Len(entries) THEN <<>>
    ELSE createSubshellGroup(entries[i]) \o Subshells(entries, i + 1)

\* An element descriptor is referred to by its atomic number; no descriptor
\* is Undefined.
ElementError == "createElementModel requires an element descriptor"

\* The group of an element over the records of its configuration: the
\* nucleus is the first child.
GroupOf(element, entries) ==
    [element  |-> element,
     children |-> <<[type |-> "nucleus"]>> \o Subshells(entries, 1)]

\* configuration ?? buildElectronConfiguration(element.atomicNumber)
Resolved(h, element, configuration) ==
    IF configuration # Undefined
    THEN [heap |-> h, ret |-> configuration]
    ELSE buildElectronConfiguration(h, element)

\* The body of createElementModel after the guard.
ElementGroup(h, element, configuration) ==
    CHOOSE out \in
        {[heap   |-> resolved.heap,
          thrown |-> "",
          ret    |-> <<GroupOf(element,
                               Values(resolved.heap, resolved.ret))>>] :
             resolved \in {Resolved(h, element, configuration)}} : TRUE

\* Mutant: calcium stands in for a missing element.
createElementModelOfCalcium(h, element, configuration) ==
    ElementGroup(h, IF element = Undefined THEN 20 ELSE element,
                 configuration)

\* createElementModel({ element, configuration }): the heap afterwards, the
\* message of the error thrown ("" for none) and the group returned (<<>>
\* for none).
createElementModel(h, element, configuration) ==
    IF element = Undefined
    THEN [heap |-> h, thrown |-> ElementError, ret |-> <<>>]
    ELSE ElementGroup(h, element, configuration)

(***************************************************************************)
(* script.js: the element on the page.                                     *)
(*                                                                         *)
(* A model in the scene is a group with the identity it was created with;  *)
(* no model is 0.                                                          *)
(***************************************************************************)
\* if (nodes) nodes.visible = enabled, for one mesh
NodesVisible(mesh, enabled) ==
    IF mesh.nodesGroup = <<>> THEN mesh
    ELSE [mesh EXCEPT !.nodesGroup[1].visible = enabled]

\* Mutant: the nodal groups are left as they were made.
applyNodeVisibilityNever(rootGroup, enabled) == rootGroup

\* applyNodeVisibility(rootGroup, enabled) for a group that is not null:
\* the traversal reaches the meshes of every subshell group.
applyNodeVisibility(rootGroup, enabled) ==
    [rootGroup EXCEPT !.children =
        [k \in 1 .. Len(rootGroup.children) |->
            LET child == rootGroup.children[k]
            IN  IF child.type = "subshell"
                THEN [child EXCEPT !.children =
                         [idx \in DOMAIN child.children |->
                             NodesVisible(child.children[idx], enabled)]]
                ELSE child]]

\* Mutant: the model that was shown stays in the scene.
SceneKeep(scene, id) == scene

\* scene.remove(object)
SceneRemove(scene, id) == SelectSeq(scene, LAMBDA m : m.id # id)

\* scene.add(object)
SceneAdd(scene, id, group) == Append(scene, [id |-> id, group |-> group])

\* The model of the scene with an identity.
SceneModel(scene, id) ==
    (CHOOSE k \in 1 .. Len(scene) : scene[k].id = id)

\* setElement(element) after its guard, for the page a, with the
\* configuration built and the model made of it.
Selected(a, element, built, made) ==
    LET id == a.created + 1
        scene == IF a.currentModel # 0
                 THEN SceneRemove(a.scene, a.currentModel) ELSE a.scene
    IN  [app  |-> [a EXCEPT !.currentElement = element,
                            !.currentConfig = built.ret,
                            !.currentModel = id,
                            !.created = id,
                            !.scene = SceneAdd(scene, id,
                                          applyNodeVisibility(
                                              made.ret[1], a.nodesEnabled))],
         heap |-> made.heap]

\* setElement(element): the page and the heap afterwards.
setElement(a, h, element) ==
    IF element = Undefined THEN [app |-> a, heap |-> h]
    ELSE CHOOSE out \in
             UNION {{Selected(a, element, built, made) :
                         made \in {createElementModel(built.heap, element,
                                                      built.ret)}} :
                        built \in {buildElectronConfiguration(h, element)}} :
             TRUE

(***************************************************************************)
(* State machine.                                                          *)
(***************************************************************************)
\* One call of buildElectronConfiguration(Z).  returned is the value of the
\* result at the moment of return and writesBefore the number of writes by
\* holders of earlier results that preceded the call.
Call(Z) ==
    LET r == buildElectronConfiguration(heap, Z)
    IN  /\ heap' = r.heap
        /\ calls' = Append(calls, [atomicNumber |-> Z,
                                   config       |-> r.ret,
                                   filled       |-> r.filled,
                                   returned     |-> Values(r.heap, r.ret),
                                   writesBefore |-> writes])

\* The configuration the last call returned.
Current == calls[Len(calls)].config

\* buildElectronConfiguration(atomicNumber), once.
Build ==
    /\ calls = <<>>
    /\ Call(atomicNumber)
    /\ UNCHANGED <<EXCEPTION_ADJUSTMENTS, atomicNumber, text, valence,
                   called, writes>>
    /\ UNCHANGED <<model, field, shape, layout, app>>

\* formatElectronConfiguration(configuration)
Format ==
    /\ calls # <<>>
    /\ "format" \notin called
    /\ text' = formatElectronConfiguration(heap, Current)
    /\ called' = called \cup {"format"}
    /\ UNCHANGED <<heap, EXCEPTION_ADJUSTMENTS, atomicNumber, calls, valence,
                   writes>>
    /\ UNCHANGED <<model, field, shape, layout, app>>

\* computeValenceElectrons(configuration)
Valence ==
    /\ calls # <<>>
    /\ "valence" \notin called
    /\ valence' = computeValenceElectrons(heap, Current)
    /\ called' = called \cup {"valence"}
    /\ UNCHANGED <<heap, EXCEPTION_ADJUSTMENTS, atomicNumber, calls, text,
                   writes>>
    /\ UNCHANGED <<model, field, shape, layout, app>>

\* buildElectronConfiguration(Z), one call after another.
BuildAgain ==
    \E Z \in SampleZ :
        /\ Len(calls) < MaxCalls
        /\ atomicNumber' = Z
        /\ Call(Z)
        /\ UNCHANGED <<EXCEPTION_ADJUSTMENTS, text, valence, called, writes>>
        /\ UNCHANGED <<model, field, shape, layout, app>>

\* The environment: whoever holds a returned configuration overwrites the
\* electrons of one of its records.
HolderWrites ==
    \E i \in 1 .. Len(calls) :
        \E k \in 1 .. Len(heap[calls[i].config].items) :
            /\ writes < MaxWrites
            /\ heap' = [heap EXCEPT
                           ![heap[calls[i].config].items[k]].electrons = 0]
            /\ writes' = writes + 1
            /\ UNCHANGED <<EXCEPTION_ADJUSTMENTS, atomicNumber, calls, text,
                           valence, called>>
            /\ UNCHANGED <<model, field, shape, layout, app>>

\* createElementModel has not been called.
NotCalled ==
    [element |-> Undefined, configuration |-> Undefined, allocated |-> 0,
     thrown |-> "", ret |-> <<>>, done |-> FALSE]

\* createElementModel({ element, configuration }), once: without an
\* element, or with one, and with or without the configuration built for
\* it.  allocated counts the objects the call put on the heap.
CreateElementModel ==
    /\ ~model.done
    /\ \E element \in {Undefined} \cup (1 .. MaxZ) :
           \E configuration \in {Undefined}
                   \cup (IF calls = <<>> THEN {} ELSE {Current}) :
               \E r \in {createElementModel(heap, element, configuration)} :
                   /\ heap' = r.heap
                   /\ model' = [element       |-> element,
                                configuration |-> configuration,
                                allocated     |-> Len(r.heap) - Len(heap),
                                thrown        |-> r.thrown,
                                ret           |-> r.ret,
                                done          |-> TRUE]
    /\ UNCHANGED <<EXCEPTION_ADJUSTMENTS, atomicNumber, calls, text, valence,
                   called, writes, field, shape, layout, app>>

\* The families and variants asked for: the four families and one that
\* does not exist, every variant of FAMILY_VARIANTS and one that does not
\* exist.
Families == {"s", "p", "d", "f", "g"}

Variants ==
    UNION {{getVariants(family)[k] : k \in 1 .. Len(getVariants(family))} :
               family \in Families} \cup {"?"}

\* The coordinates of the vectors that give the directions.
Coordinates ==
    {Real(n) : n \in (0 - MaxCoord) .. MaxCoord} \cup {<<0, 1>>, <<0, -1>>}

Directions ==
    {Vector3(x, y, z) : x \in Coordinates, y \in Coordinates,
                        z \in Coordinates}
        \ {Axis(0, 0, 0)}

\* An orbital with nothing computed for it yet.
Orbital(family, variant) ==
    [family |-> family, variant |-> variant,
     dir |-> Axis(1, 0, 0), amplitude |-> One, evaluated |-> FALSE,
     nodes |-> <<>>, built |-> FALSE,
     normals |-> <<>>, probed |-> FALSE]

\* evaluateOrbitalAmplitude(family, variant, dir) for some direction.
EvaluateAmplitude ==
    \E v \in Directions :
        /\ ~field.evaluated
        /\ field' = [field EXCEPT
                         !.dir = v,
                         !.amplitude = evaluateOrbitalAmplitude(
                                           field.family, field.variant, v),
                         !.evaluated = TRUE]
        /\ UNCHANGED <<heap, EXCEPTION_ADJUSTMENTS, atomicNumber, calls, text,
                       valence, called, writes, model, shape, layout, app>>

\* buildNodalGroup({ family, variant }, size)
BuildNodes ==
    /\ ~field.built
    /\ field' = [field EXCEPT
                     !.nodes = buildNodalGroup(
                         [family |-> field.family, variant |-> field.variant]),
                     !.built = TRUE]
    /\ UNCHANGED <<heap, EXCEPTION_ADJUSTMENTS, atomicNumber, calls, text,
                   valence, called, writes, model, shape, layout, app>>

\* The planes among the children of the nodal group, none without a group.
PlanesOf(nodes) ==
    IF nodes = <<>> THEN <<>>
    ELSE SelectSeq(nodes[1].children, LAMBDA child : child.type = "plane")

\* The cones among the children of the nodal group.
ConesOf(nodes) ==
    IF nodes = <<>> THEN <<>>
    ELSE SelectSeq(nodes[1].children, LAMBDA child : child.type = "cone")

\* evaluateOrbitalAmplitude at the normal of every plane of the nodal
\* group, in the order of the planes.
AmplitudeAtNormals ==
    /\ field.built
    /\ ~field.probed
    /\ field' = [field EXCEPT
                     !.normals = [k \in 1 .. Len(PlanesOf(field.nodes)) |->
                                     evaluateOrbitalAmplitude(
                                         field.family, field.variant,
                                         PlanesOf(field.nodes)[k].normal)],
                     !.probed = TRUE]
    /\ UNCHANGED <<heap, EXCEPTION_ADJUSTMENTS, atomicNumber, calls, text,
                   valence, called, writes, model, shape, layout, app>>

\* Positions with integer coordinates and an integer length; the origin is
\* one of them.
Positions ==
    {v \in {Axis(x, y, z) : x \in (0 - MaxCoord) .. MaxCoord,
                            y \in (0 - MaxCoord) .. MaxCoord,
                            z \in (0 - MaxCoord) .. MaxCoord} :
        \E n \in 0 .. LengthSq(v)[1] : n * n = LengthSq(v)[1]}

\* Spheres of a few finenesses, by the directions of their vertices.
Tessellations ==
    {{v \in Positions : Length(v) >= 1 /\ Length(v) <= n} :
         n \in 1 .. 2 * MaxCoord}

\* Positive values of baseRadius and radialScale, and whole exponents.
Lengths == {Rat(n, 2) : n \in 1 .. MaxParam}

Exponents == {Rat(n, 1) : n \in 1 .. MaxPower}

\* The shape configurations: any enumerated orbital, with or without
\* radialScale and power.
Configs ==
    UNION {{[family |-> f, variant |-> getVariants(f)[k], baseRadius |-> b,
             radialScale |-> r, power |-> p] :
                k \in 1 .. Len(getVariants(f)), b \in Lengths,
                r \in Lengths \cup {Missing},
                p \in Exponents \cup {Missing}} :
               f \in {"s", "p", "d", "f"}}

\* The s orbital of radius 1 without radialScale and power.
Sphere ==
    [family |-> "s", variant |-> "s", baseRadius |-> Rat(1, 1),
     radialScale |-> Missing, power |-> Missing]

\* A configuration with nothing computed for it yet.
Shape(config) == [config |-> config, radii |-> <<>>, sdf |-> <<>>,
                  mesh |-> <<>>]

\* evaluateOrbitalRadius(config, dir) for some direction, at most twice.
EvaluateRadius ==
    \E v \in Positions \ {Axis(0, 0, 0)} :
        /\ Len(shape.radii) < 2
        /\ shape.sdf = <<>>
        /\ shape.mesh = <<>>
        /\ shape' = [shape EXCEPT !.radii = Append(@,
               [amplitude |-> AsRational(
                                  evaluateOrbitalAmplitude(
                                      shape.config.family,
                                      shape.config.variant, v), v),
                radius    |-> evaluateOrbitalRadius(shape.config, v)])]
        /\ UNCHANGED <<heap, EXCEPTION_ADJUSTMENTS, atomicNumber, calls, text,
                       valence, called, writes, model, field, layout, app>>

\* evaluateOrbitalSDF(config, position) for some position.
EvaluateSDF ==
    \E position \in Positions :
        /\ shape.radii = <<>>
        /\ shape.sdf = <<>>
        /\ shape.mesh = <<>>
        /\ shape' = [shape EXCEPT !.sdf =
               <<[position |-> position,
                  target   |-> evaluateOrbitalSDF(shape.config, position)]>>]
        /\ UNCHANGED <<heap, EXCEPTION_ADJUSTMENTS, atomicNumber, calls, text,
                       valence, called, writes, model, field, layout, app>>

\* buildOrbitalMesh(config) on some sphere.  Without a power the exponent
\* is 1.6, which gives a rational magnitude only where the amplitude is 0
\* or 1 in size: then the orbital is an s orbital.
BuildOrbitalMesh ==
    \E vertices \in Tessellations :
        \E enableNodes \in BOOLEAN, showNodes \in BOOLEAN :
            /\ shape.radii = <<>>
            /\ shape.sdf = <<>>
            /\ shape.mesh = <<>>
            /\ shape.config.power # Missing \/ shape.config.family = "s"
            /\ shape' = [shape EXCEPT !.mesh =
                   <<buildOrbitalMesh(shape.config, vertices, enableNodes,
                                      showNodes)>>]
            /\ UNCHANGED <<heap, EXCEPTION_ADJUSTMENTS, atomicNumber, calls,
                           text, valence, called, writes, model, field, layout, app>>

\* The capacity of a subshell of a family, 18 for the one that does not
\* exist.
CapacityOf(l) ==
    CASE l = "s" -> 2 [] l = "p" -> 6 [] l = "d" -> 10 [] l = "f" -> 14
      [] OTHER -> 18

\* The records handed to createSubshellGroup: any shell from below the
\* first on, any family and one that does not exist, with one electron or
\* with fourteen, more than an s, p or d subshell holds.
Entries ==
    {[n |-> n, l |-> l, capacity |-> CapacityOf(l), electrons |-> e] :
         n \in (0 - NegShell) .. TopShellNumber, l \in Families,
         e \in {1, 14}}

\* createSubshellGroup(entry, ...) for one record and then another.
CreateSubshellGroup ==
    \E entry \in Entries :
        /\ Len(layout) < 2
        /\ layout' = Append(layout,
                            [entry |-> entry,
                             ret   |-> createSubshellGroup(entry)])
        /\ UNCHANGED <<heap, EXCEPTION_ADJUSTMENTS, atomicNumber, calls, text,
                       valence, called, writes, model, field, shape, app>>

\* The page as the declarations of script.js leave it.
Page ==
    [currentElement |-> Undefined, currentConfig |-> Undefined,
     currentModel |-> 0, nodesEnabled |-> FALSE, scene |-> <<>>,
     created |-> 0, loaded |-> FALSE, last |-> "", selected |-> Undefined]

\* The element descriptors of the periodic table, by atomic number.
Elements == {1, 24, 58}

\* What a call of setElement(element) leaves; last tells whether an element
\* was given and selected is the last element that was.
SetElement(element) ==
    \E r \in {setElement(app, heap, element)} :
        /\ app' = [r.app EXCEPT !.loaded = TRUE,
                                !.last = IF element = Undefined
                                         THEN "none" ELSE "element",
                                !.selected = IF element = Undefined
                                             THEN @ ELSE element]
        /\ heap' = r.heap

\* setElement(defaultElement) at the end of the script, whatever the table
\* gives as the default.
LoadDefault ==
    /\ ~app.loaded
    /\ \E element \in Elements \cup {Undefined} : SetElement(element)
    /\ UNCHANGED <<EXCEPTION_ADJUSTMENTS, atomicNumber, calls, text, valence,
                   called, writes, model, field, shape, layout>>

\* handlePeriodicCellClick(event): setElement of the element of the cell, or
\* nothing for a cell without a symbol or a symbol without an element.
HandlePeriodicCellClick ==
    /\ app.loaded
    /\ \E element \in Elements \cup {Undefined} :
           /\ element # Undefined => app.created < MaxSelections
           /\ SetElement(element)
    /\ UNCHANGED <<EXCEPTION_ADJUSTMENTS, atomicNumber, calls, text, valence,
                   called, writes, model, field, shape, layout>>

\* The change handler of the node toggle.  applyNodeVisibility returns at
\* once for a currentModel of null.
NodeToggleChange ==
    /\ app.loaded
    /\ \E checked \in BOOLEAN :
           app' = [app EXCEPT
                      !.nodesEnabled = checked,
                      !.last = "change",
                      !.scene =
                          IF app.currentModel = 0 THEN app.scene
                          ELSE LET k == SceneModel(app.scene, app.currentModel)
                               IN  [app.scene EXCEPT ![k].group =
                                       applyNodeVisibility(app.scene[k].group,
                                                           checked)]]
    /\ UNCHANGED <<heap, EXCEPTION_ADJUSTMENTS, atomicNumber, calls, text,
                   valence, called, writes, model, field, shape, layout>>

Loaded ==
    /\ heap = LoadedHeap
    /\ EXCEPTION_ADJUSTMENTS = ExceptionTable
    /\ calls = <<>>
    /\ text = <<>>
    /\ valence = 0
    /\ called = {}
    /\ writes = 0
    /\ model = NotCalled
    /\ layout = <<>>
    /\ app = Page

\* One call with any argument, then the two readers in either order.
Init ==
    /\ Loaded
    /\ field = Orbital("s", "s")
    /\ shape = Shape(Sphere)
    /\ atomicNumber \in MinZ .. MaxZ

Next == Build \/ Format \/ Valence

Spec == Init /\ [][Next]_vars

\* Several calls, with writes to the results in between.
InitCalls ==
    /\ Loaded
    /\ field = Orbital("s", "s")
    /\ shape = Shape(Sphere)
    /\ atomicNumber = Undefined

NextCalls == BuildAgain \/ HolderWrites

SpecCalls == InitCalls /\ [][NextCalls]_vars

\* A configuration is built or not, and the model of an element is made.
InitModel ==
    /\ Loaded
    /\ field = Orbital("s", "s")
    /\ shape = Shape(Sphere)
    /\ atomicNumber \in SampleZ

NextModel == Build \/ CreateElementModel

SpecModel == InitModel /\ [][NextModel]_vars

\* Any family and variant; the amplitude at one direction, the nodal
\* group, and the amplitude at the normals of its planes.
InitField ==
    /\ Loaded
    /\ shape = Shape(Sphere)
    /\ field \in {Orbital(family, variant) :
                      family \in Families, variant \in Variants}
    /\ atomicNumber = Undefined

NextField == EvaluateAmplitude \/ BuildNodes \/ AmplitudeAtNormals

SpecField == InitField /\ [][NextField]_vars

\* Any shape configuration; its radius in one or two directions, its
\* signed distance at one position, or its mesh.
InitShape ==
    /\ Loaded
    /\ atomicNumber = Undefined
    /\ field = Orbital("s", "s")
    /\ shape \in {Shape(config) : config \in Configs}

NextShape == EvaluateRadius \/ EvaluateSDF \/ BuildOrbitalMesh

SpecShape == InitShape /\ [][NextShape]_vars

\* Subshell groups for any two records.
InitLayout ==
    /\ Loaded
    /\ atomicNumber = Undefined
    /\ field = Orbital("s", "s")
    /\ shape = Shape(Sphere)

NextLayout == CreateSubshellGroup

SpecLayout == InitLayout /\ [][NextLayout]_vars

\* The page from its load on: elements selected and the node toggle changed,
\* in any order.
InitApp ==
    /\ Loaded
    /\ atomicNumber = Undefined
    /\ field = Orbital("s", "s")
    /\ shape = Shape(Sphere)

NextApp == LoadDefault \/ HandlePeriodicCellClick \/ NodeToggleChange

SpecApp == InitApp /\ [][NextApp]_vars

(***************************************************************************)
(* Properties.                                                             *)
(***************************************************************************)
\* The electrons of a sequence of record values, summed.
RECURSIVE SumFrom(_, _)
SumFrom(entries, i) ==
    IF i > Len(entries) THEN 0
    ELSE entries[i].electrons + SumFrom(entries, i + 1)

SumElectrons(entries) == SumFrom(entries, 1)

\* The electrons of subshell (n, l) in a sequence of record values, none
\* when the subshell is absent.
ElectronsAt(entries, n, l) ==
    SumElectrons(SelectSeq(entries, LAMBDA e : e.n = n /\ e.l = l))

IsException(Z) == Z \in DOMAIN ExceptionTable

\* The electrons of the records at the positions S, summed.
RECURSIVE SumOver(_, _)
SumOver(entries, S) ==
    IF S = {} THEN 0
    ELSE LET k == CHOOSE x \in S : TRUE
         IN  entries[k].electrons + SumOver(entries, S \ {k})

\* The positions of the records of the highest shell present.
TopShell(entries) ==
    {k \in DOMAIN entries : \A j \in DOMAIN entries : entries[j].n <= entries[k].n}

\* The identities of the records a call returned.
RecordsOf(i) == {heap[calls[i].config].items[k] :
                    k \in 1 .. Len(heap[calls[i].config].items)}

\* C1: for every atomic number in 1..118 without an exception rule, the
\* electrons of the returned records sum to the atomic number.
C1_SumWithoutException ==
    \A i \in 1 .. Len(calls) :
        (calls[i].atomicNumber \in 1 .. 118 /\ ~IsException(calls[i].atomicNumber))
            => SumElectrons(calls[i].returned) = calls[i].atomicNumber

\* A call for element 118, which has no rule, has returned all 19 subshells.
C1_Witness ==
    /\ calls # <<>>
    /\ calls[1].atomicNumber = 118
    /\ Len(calls[1].returned) = Len(OrbitalTable)

\* C2: for every atomic number with an exception rule, the electrons of the
\* returned records still sum to the atomic number.
C2_SumWithException ==
    \A i \in 1 .. Len(calls) :
        IsException(calls[i].atomicNumber)
            => SumElectrons(calls[i].returned) = calls[i].atomicNumber

\* A call for element 90, whose rule moves two electrons, creates 6d and
\* empties 5f, has returned.
C2_Witness ==
    /\ calls # <<>>
    /\ calls[1].atomicNumber = 90
    /\ ElectronsAt(calls[1].filled, 5, "f") = 2
    /\ ElectronsAt(calls[1].returned, 6, "d") = 2

\* C3: every record of a returned configuration has 0 < electrons <=
\* capacity, whatever the atomic number.
C3_OccupancyInRange ==
    \A i \in 1 .. Len(calls) :
        \A k \in 1 .. Len(calls[i].returned) :
            /\ 0 < calls[i].returned[k].electrons
            /\ calls[i].returned[k].electrons <= calls[i].returned[k].capacity

\* A call for element 46 has returned, where the rule emptied a record that
\* the pruning then removed.
C3_Witness ==
    /\ calls # <<>>
    /\ calls[1].atomicNumber = 46
    /\ Len(calls[1].returned) < Len(calls[1].filled)

\* C4: for every atomic number in 1..118 the returned records are in
\* strictly increasing filling-order index, so no (n, l) occurs twice.
C4_FillingOrder ==
    \A i \in 1 .. Len(calls) :
        calls[i].atomicNumber \in 1 .. 118 =>
            LET r == calls[i].returned
            IN  /\ \A k \in 1 .. Len(r) : ORDER_INDEX(r[k].n, r[k].l) # Undefined
                /\ \A k \in 1 .. Len(r) - 1 :
                       ORDER_INDEX(r[k].n, r[k].l)
                           < ORDER_INDEX(r[k + 1].n, r[k + 1].l)
                /\ \A j, k \in 1 .. Len(r) :
                       (r[j].n = r[k].n /\ r[j].l = r[k].l) => j = k

\* A call for element 57 has returned, where the rule created 5d, absent
\* from the baseline fill.
C4_Witness ==
    /\ calls # <<>>
    /\ calls[1].atomicNumber = 57
    /\ ElectronsAt(calls[1].filled, 5, "d") = 0
    /\ ElectronsAt(calls[1].returned, 5, "d") = 1

\* C5: for every atomic number with a rule, each subshell of the result
\* holds what the baseline fill gave it, less the rule's count at the source
\* and plus the count at the destination; the source held at least the
\* count and the destination had room for it, so no clamp changed a value;
\* element 24 ends with one electron in 4s and five in 3d.
C5_ExactTransfer ==
    \A i \in 1 .. Len(calls) :
        IsException(calls[i].atomicNumber) =>
            LET op == ExceptionTable[calls[i].atomicNumber][1]
                base == calls[i].filled
                r == calls[i].returned
                to == OrbitalTable[ORDER_INDEX(op.to.n, op.to.l)]
            IN  /\ Len(ExceptionTable[calls[i].atomicNumber]) = 1
                /\ ElectronsAt(base, op.from.n, op.from.l) >= op.from.count
                /\ ElectronsAt(base, op.to.n, op.to.l) + op.to.count <= to.capacity
                /\ \A s \in 1 .. Len(OrbitalTable) :
                       ElectronsAt(r, OrbitalTable[s].n, OrbitalTable[s].l)
                           = ElectronsAt(base, OrbitalTable[s].n, OrbitalTable[s].l)
                             - (IF OrbitalTable[s].n = op.from.n
                                   /\ OrbitalTable[s].l = op.from.l
                                THEN op.from.count ELSE 0)
                             + (IF OrbitalTable[s].n = op.to.n
                                   /\ OrbitalTable[s].l = op.to.l
                                THEN op.to.count ELSE 0)
                /\ SumElectrons(r) = SumElectrons(base)
                /\ (calls[i].atomicNumber = 24 =>
                       /\ ElectronsAt(r, 4, "s") = 1
                       /\ ElectronsAt(r, 3, "d") = 5)

\* A call for element 24 has returned, whose baseline fill had 4s2 3d4.
C5_Witness ==
    /\ calls # <<>>
    /\ calls[1].atomicNumber = 24
    /\ ElectronsAt(calls[1].filled, 4, "s") = 2
    /\ ElectronsAt(calls[1].filled, 3, "d") = 4

\* C6: buildElectronConfiguration(20) returns exactly 1s2 2s2 2p6 3s2 3p6
\* 4s2, in that order, with capacities 2, 2, 6, 2, 6, 2.
C6_Calcium ==
    \A i \in 1 .. Len(calls) :
        calls[i].atomicNumber = 20 =>
            calls[i].returned =
                << [n |-> 1, l |-> "s", capacity |-> 2, electrons |-> 2],
                   [n |-> 2, l |-> "s", capacity |-> 2, electrons |-> 2],
                   [n |-> 2, l |-> "p", capacity |-> 6, electrons |-> 6],
                   [n |-> 3, l |-> "s", capacity |-> 2, electrons |-> 2],
                   [n |-> 3, l |-> "p", capacity |-> 6, electrons |-> 6],
                   [n |-> 4, l |-> "s", capacity |-> 2, electrons |-> 2] >>

\* A call for element 20 has returned.
C6_Witness ==
    /\ calls # <<>>
    /\ calls[1].atomicNumber = 20
    /\ SumElectrons(calls[1].returned) = 20

\* C7: two calls with the same atomic number, whatever was called in
\* between, return sequences equal in length and in n, l, capacity and
\* electrons at every position, and they are different arrays holding
\* different record objects.
C7_EqualNotIdentical ==
    \A i, j \in 1 .. Len(calls) :
        (i < j /\ calls[i].atomicNumber = calls[j].atomicNumber) =>
            /\ Len(calls[i].returned) = Len(calls[j].returned)
            /\ \A k \in 1 .. Len(calls[i].returned) :
                   /\ calls[i].returned[k].n = calls[j].returned[k].n
                   /\ calls[i].returned[k].l = calls[j].returned[k].l
                   /\ calls[i].returned[k].capacity = calls[j].returned[k].capacity
                   /\ calls[i].returned[k].electrons = calls[j].returned[k].electrons
            /\ calls[i].config # calls[j].config
            /\ RecordsOf(i) \cap RecordsOf(j) = {}

\* Element 57 was built, then element 24, then element 57 again.
C7_Witness ==
    /\ Len(calls) = 3
    /\ calls[1].atomicNumber = 57
    /\ calls[2].atomicNumber = 24
    /\ calls[3].atomicNumber = 57

\* C8: no sequence of calls and of writes to returned records changes
\* ORBITAL_ORDER, its elements or the exception table; a returned
\* configuration shares no object with the table or with another returned
\* configuration; and the latest call (so, state after state, every call)
\* returned what a call on the freshly loaded module returns for the same
\* atomic number.
C8_NothingShared ==
    /\ \A o \in 1 .. ORBITAL_ORDER : heap[o] = LoadedHeap[o]
    /\ EXCEPTION_ADJUSTMENTS = ExceptionTable
    /\ \A i \in 1 .. Len(calls) :
           /\ calls[i].config > ORBITAL_ORDER
           /\ RecordsOf(i) \cap (1 .. ORBITAL_ORDER) = {}
           /\ \A j \in 1 .. Len(calls) :
                  i # j => /\ calls[i].config # calls[j].config
                           /\ RecordsOf(i) \cap RecordsOf(j) = {}
    /\ calls # <<>> =>
           LET fresh == buildElectronConfiguration(LoadedHeap,
                                                   calls[Len(calls)].atomicNumber)
           IN  calls[Len(calls)].returned = Values(fresh.heap, fresh.ret)

\* Element 24 was built, a record of the result was overwritten, and element
\* 24 was built again.
C8_Witness ==
    \E i, j \in 1 .. Len(calls) :
        /\ i < j
        /\ calls[i].atomicNumber = 24
        /\ calls[j].atomicNumber = 24
        /\ calls[j].writesBefore > calls[i].writesBefore
        /\ Values(heap, calls[i].config) # calls[i].returned

\* C9: for an atomic number <= 0 the call returns an empty sequence, for
\* which formatElectronConfiguration returns the empty string and
\* computeValenceElectrons returns 0.
C9_InvalidNumber ==
    (calls # <<>> /\ calls[Len(calls)].atomicNumber <= 0) =>
        /\ calls[Len(calls)].returned = <<>>
        /\ heap[Current].items = <<>>
        /\ "format" \in called => text = <<>>
        /\ "valence" \in called => valence = 0

\* A negative atomic number was built and both readers ran on the result.
C9_Witness ==
    /\ calls # <<>>
    /\ calls[1].atomicNumber < 0
    /\ called = {"format", "valence"}

\* C10: computeValenceElectrons returns the sum of the electrons of exactly
\* the records whose n is the highest n present, wherever they sit; for
\* element 46, whose 5s was pruned, that is 4s, 4p and 4d: 18.
C10_ValenceOfTopShell ==
    (calls # <<>> /\ "valence" \in called) =>
        LET r == calls[Len(calls)].returned
        IN  /\ valence = SumOver(r, TopShell(r))
            /\ calls[Len(calls)].atomicNumber = 46 => valence = 18

\* Valence electrons were computed for element 21, whose highest shell, 4s,
\* is followed in the sequence by 3d.
C10_Witness ==
    /\ calls # <<>>
    /\ calls[1].atomicNumber = 21
    /\ "valence" \in called
    /\ calls[1].returned[Len(calls[1].returned)].n = 3
    /\ valence = 2

\* The maximal runs of characters other than sep in a string, in order.
RECURSIVE WordsFrom(_, _, _, _)
WordsFrom(str, sep, i, word) ==
    IF i > Len(str) THEN (IF word = <<>> THEN <<>> ELSE <<word>>)
    ELSE IF str[i] = sep
         THEN (IF word = <<>> THEN <<>> ELSE <<word>>)
              \o WordsFrom(str, sep, i + 1, <<>>)
         ELSE WordsFrom(str, sep, i + 1, Append(word, str[i]))

Words(str, sep) == WordsFrom(str, sep, 1, <<>>)

\* The number a string of decimal digits writes, -1 for any other string.
DigitValue(ch) ==
    IF \E d \in 0 .. 9 : Digit(d) = ch
    THEN CHOOSE d \in 0 .. 9 : Digit(d) = ch ELSE -1

RECURSIVE ParseNat(_)
ParseNat(str) ==
    IF str = <<>> THEN -1
    ELSE LET last == DigitValue(str[Len(str)])
             init == SubSeq(str, 1, Len(str) - 1)
         IN  IF last < 0 THEN -1
             ELSE IF init = <<>> THEN last
             ELSE IF ParseNat(init) < 0 THEN -1
             ELSE 10 * ParseNat(init) + last

\* C11: formatElectronConfiguration gives one token per record, in order,
\* each the shell number, the family letter and the electron count in
\* decimal; tokens are separated by exactly one space and nothing leads or
\* trails; element 20 reads "1s2 2s2 2p6 3s2 3p6 4s2".
C11_FormatTokens ==
    (calls # <<>> /\ "format" \in called) =>
        LET r == calls[Len(calls)].returned
            w == Words(text, " ")
        IN  /\ Len(w) = Len(r)
            /\ \A k \in 1 .. Len(w) :
                   /\ Len(w[k]) >= 3
                   /\ ParseNat(<<w[k][1]>>) = r[k].n
                   /\ w[k][2] = r[k].l
                   /\ ParseNat(SubSeq(w[k], 3, Len(w[k]))) = r[k].electrons
            /\ Cardinality({i \in 1 .. Len(text) : text[i] = " "})
                   = (IF r = <<>> THEN 0 ELSE Len(r) - 1)
            /\ text # <<>> => (text[1] # " " /\ text[Len(text)] # " ")
            /\ calls[Len(calls)].atomicNumber = 20 =>
                   text = <<"1", "s", "2", " ", "2", "s", "2", " ",
                            "2", "p", "6", " ", "3", "s", "2", " ",
                            "3", "p", "6", " ", "4", "s", "2">>

\* Element 29 was formatted: seven records, the last with a two-digit count.
C11_Witness ==
    /\ calls # <<>>
    /\ calls[1].atomicNumber = 29
    /\ "format" \in called
    /\ Len(text) = 28

\* The quantum number l of a family letter.
AngularNumber(l) ==
    CASE l = "s" -> 0 [] l = "p" -> 1 [] l = "d" -> 2 [] l = "f" -> 3

\* The capacities of a sequence of table elements, summed.
RECURSIVE CapacityFrom(_, _)
CapacityFrom(entries, i) ==
    IF i > Len(entries) THEN 0
    ELSE entries[i].capacity + CapacityFrom(entries, i + 1)

\* C20: ORBITAL_ORDER has 19 slots with distinct (n, l), strictly increasing
\* by (n + l, n); every slot has l < n and capacity 2(2l + 1); the
\* capacities sum to 118.
C20_MadelungTable ==
    LET t == Values(heap, ORBITAL_ORDER)
    IN  /\ Len(t) = 19
        /\ \A j, k \in 1 .. Len(t) :
               (t[j].n = t[k].n /\ t[j].l = t[k].l) => j = k
        /\ \A k \in 1 .. Len(t) :
               /\ t[k].l \in {"s", "p", "d", "f"}
               /\ t[k].n >= 1
               /\ AngularNumber(t[k].l) < t[k].n
               /\ t[k].capacity = 2 * (2 * AngularNumber(t[k].l) + 1)
        /\ \A k \in 1 .. Len(t) - 1 :
               \/ t[k].n + AngularNumber(t[k].l)
                      < t[k + 1].n + AngularNumber(t[k + 1].l)
               \/ /\ t[k].n + AngularNumber(t[k].l)
                         = t[k + 1].n + AngularNumber(t[k + 1].l)
                  /\ t[k].n < t[k + 1].n
        /\ CapacityFrom(t, 1) = 118

\* A call that walked the whole table has returned: every slot is in the
\* result, filled to its capacity.
C20_Witness ==
    /\ calls # <<>>
    /\ calls[1].atomicNumber > 118
    /\ \A k \in 1 .. Len(OrbitalTable) :
           calls[1].returned[k].electrons = heap[k].capacity

\* C19: createElementModel without an element descriptor throws its error
\* and has by then built no configuration, no nucleus and no subshell group;
\* it returns no model, of a default element or of any other.
C19_ElementRequired ==
    (model.done /\ model.element = Undefined) =>
        /\ model.thrown = ElementError
        /\ model.thrown # ""
        /\ model.allocated = 0
        /\ model.ret = <<>>

\* createElementModel was called with a configuration but without an element.
C19_Witness ==
    /\ model.done
    /\ model.element = Undefined
    /\ model.configuration # Undefined
    /\ model.thrown = ElementError

\* The pairs of FAMILY_VARIANTS.
Enumerated(family, variant) ==
    \E k \in 1 .. Len(getVariants(family)) : getVariants(family)[k] = variant

\* A value is 0, is 1, lies in [-1, 1], for the direction v / |v|.
IsZero(a) == a.num = Real(0)

IsOne(a, v) ==
    /\ MathSign(a.num) = 1
    /\ Times(a.num, a.num) = Times(Real(a.den * a.den),
                                   Power(LengthSq(v), a.deg))

InUnitRange(a, v) ==
    MathSign(Minus(Times(Real(a.den * a.den), Power(LengthSq(v), a.deg)),
                   Times(a.num, a.num))) >= 0

\* The direction v / |v| lies in the plane, on the double cone.
InPlane(v, plane) == Dot(v, plane.normal) = Real(0)

OnCone(v, cone) ==
    Times(Real(cone.cosThetaSq[2]), Times(v.y, v.y))
        = Times(Real(cone.cosThetaSq[1]), LengthSq(v))

\* C12, as stated: for every enumerated pair the amplitude at the normal of
\* each plane of its nodal group is 0.
C12_ZeroAtNormals ==
    (field.probed /\ Enumerated(field.family, field.variant)) =>
        \A k \in 1 .. Len(field.normals) : IsZero(field.normals[k])

\* C12, amended: the amplitude is 0 at the normal of every listed plane for
\* py, pz, dxz, dyz, dxy, fyz2, fxyz and fcos3 (and for s and dz2, which list
\* no plane); for px, dx2y2, fz3, fxz2, fzx2y2 and fsin3 it is not 0 at the
\* normal of at least one listed plane, and for px it is 1 there.
C12_ZeroAtNormalsOfSome ==
    (field.probed /\ Enumerated(field.family, field.variant)) =>
        /\ (\A k \in 1 .. Len(field.normals) : IsZero(field.normals[k]))
               <=> field.variant \in {"s", "py", "pz", "dz2", "dxz", "dyz",
                                      "dxy", "fyz2", "fxyz", "fcos3"}
        /\ field.variant \in {"px", "dx2y2", "fz3", "fxz2", "fzx2y2", "fsin3"}
               => \E k \in 1 .. Len(field.normals) :
                      ~IsZero(field.normals[k])
        /\ field.variant = "px"
               => IsOne(field.normals[1], PlanesOf(field.nodes)[1].normal)

\* The amplitude of px was evaluated at the normal of its one plane.
C12_Witness ==
    /\ field.probed
    /\ field.variant = "px"
    /\ field.family = "p"
    /\ Len(field.normals) = 1

\* C13: every nodal surface listed for an enumerated pair lies in the zero
\* set of its amplitude: the amplitude is 0 at every direction in a listed
\* plane and at every direction whose cosine to the polar axis is plus or
\* minus a listed cone value.
C13_NodesInZeroSet ==
    (field.evaluated /\ field.built
         /\ Enumerated(field.family, field.variant)) =>
        /\ \A k \in 1 .. Len(PlanesOf(field.nodes)) :
               InPlane(field.dir, PlanesOf(field.nodes)[k])
                   => IsZero(field.amplitude)
        /\ \A k \in 1 .. Len(ConesOf(field.nodes)) :
               OnCone(field.dir, ConesOf(field.nodes)[k])
                   => IsZero(field.amplitude)

\* The outcome for a pair outside FAMILY_VARIANTS of a known family is that
\* of the variant the last branch of the family serves.
LastBranch(family) ==
    CASE family = "p" -> "pz" [] family = "d" -> "dx2y2" [] family = "f" -> "fz3"

\* C14, as stated: for a pair outside the enumerated set (an unknown family,
\* or p, d or f with an unknown variant) the amplitude is 1 at every
\* direction and the nodal builder gives no surfaces.
C14_OutsideIsSpherical ==
    (~Enumerated(field.family, field.variant)
         /\ (field.family \notin {"s", "p", "d", "f"}
                 \/ field.family \in {"p", "d", "f"})) =>
        /\ field.evaluated => IsOne(field.amplitude, field.dir)
        /\ field.built => field.nodes = <<>>

\* C14, amended: for an unknown family the amplitude is 1 at every direction
\* and there are no nodal surfaces; for p, d or f with an unknown variant the
\* amplitude is that of pz, dx2y2 or fz3 (for p, the cosine to the y
\* axis), and the nodal surfaces are those of pz and dx2y2 and, for f, the
\* one plane with normal (0, 1, 0).
C14_OutsideFallsBack ==
    ~Enumerated(field.family, field.variant) =>
        /\ field.family \notin {"s", "p", "d", "f"} =>
               /\ field.evaluated => IsOne(field.amplitude, field.dir)
               /\ field.built => field.nodes = <<>>
        /\ field.family \in {"p", "d", "f"} =>
               /\ field.evaluated =>
                      field.amplitude = evaluateOrbitalAmplitude(
                          field.family, LastBranch(field.family), field.dir)
               /\ (field.evaluated /\ field.family = "p") =>
                      field.amplitude
                          = [num |-> field.dir.y, den |-> 1, deg |-> 1]
               /\ (field.built /\ field.family # "f") =>
                      field.nodes = buildNodalGroup(
                          [family  |-> field.family,
                           variant |-> LastBranch(field.family)])
               /\ (field.built /\ field.family = "f") =>
                      /\ Len(PlanesOf(field.nodes)) = 1
                      /\ PlanesOf(field.nodes)[1].normal = Axis(0, 1, 0)
                      /\ ConesOf(field.nodes) = <<>>

\* An unknown variant of d was evaluated off its zero set and its nodal
\* group was built.
C14_Witness ==
    /\ field.family = "d"
    /\ field.variant = "?"
    /\ field.evaluated
    /\ field.built
    /\ ~IsZero(field.amplitude)
    /\ ~IsOne(field.amplitude, field.dir)
    /\ Len(PlanesOf(field.nodes)) = 2

\* C15: for every enumerated pair and every unit direction the amplitude
\* lies in [-1, 1].
C15_AmplitudeInRange ==
    (field.evaluated /\ Enumerated(field.family, field.variant)) =>
        InUnitRange(field.amplitude, field.dir)

\* fz3 was evaluated at the direction (0, -1, 0), where it is -1.
C15_Witness ==
    /\ field.evaluated
    /\ field.variant = "fz3"
    /\ field.family = "f"
    /\ field.dir = Axis(0, -1, 0)
    /\ MathSign(field.amplitude.num) = -1
    /\ Times(field.amplitude.num, field.amplitude.num)
           = Times(Real(field.amplitude.den * field.amplitude.den),
                   Power(LengthSq(field.dir), field.amplitude.deg))

\* C16: with baseRadius > 0, radialScale > 0 and power > 0 the radius is
\* monotone non-decreasing in the size of the amplitude and never below
\* baseRadius.
C16_RadiusMonotone ==
    (shape.config.radialScale # Missing
         /\ RatLeq(Rat(0, 1), shape.config.radialScale)
         /\ shape.config.radialScale # Rat(0, 1)) =>
        /\ \A i \in 1 .. Len(shape.radii) :
               RatLeq(shape.config.baseRadius, shape.radii[i].radius)
        /\ \A i, j \in 1 .. Len(shape.radii) :
               RatLeq(MathAbs(shape.radii[i].amplitude),
                      MathAbs(shape.radii[j].amplitude))
                   => RatLeq(shape.radii[i].radius, shape.radii[j].radius)

\* The radius was taken where the amplitude is negative and where it is
\* positive and smaller in size, and the radii differ.
C16_Witness ==
    /\ Len(shape.radii) = 2
    /\ shape.config.radialScale # Missing
    /\ shape.radii[1].amplitude[1] < 0
    /\ shape.radii[2].amplitude[1] > 0
    /\ ~RatLeq(MathAbs(shape.radii[1].amplitude),
               MathAbs(shape.radii[2].amplitude))
    /\ shape.radii[1].radius # shape.radii[2].radius

\* C17: the signed distance is -baseRadius at the origin and elsewhere the
\* length of the position less evaluateOrbitalRadius in its direction, the
\* defaults for a missing radialScale and power being the same.
C17_DistanceFromRadius ==
    shape.sdf # <<>> =>
        LET position == shape.sdf[1].position
            target == shape.sdf[1].target
        IN  IF position = Axis(0, 0, 0)
            THEN target.distance = RatNeg(shape.config.baseRadius)
            ELSE target.distance
                     = RatPlus(Rat(Length(position), 1),
                               RatNeg(evaluateOrbitalRadius(shape.config,
                                                            position)))

\* The distance was taken off the origin, for a configuration without a
\* power, where the amplitude is neither 0 nor 1 in size.
C17_Witness ==
    /\ shape.sdf # <<>>
    /\ shape.sdf[1].position # Axis(0, 0, 0)
    /\ shape.config.power = Missing
    /\ shape.config.radialScale # Missing
    /\ MathAbs(shape.sdf[1].target.amplitude) \notin {Rat(0, 1), Rat(1, 1)}

\* C18: the mesh of an s orbital has every vertex at the radius
\* baseRadius * (1 + radialScale), whatever the sphere and the power.
C18_SphereOfOneRadius ==
    (shape.mesh # <<>> /\ shape.config.family = "s") =>
        \A v \in DOMAIN shape.mesh[1].position :
            shape.mesh[1].position[v].r
                = [rational |-> RatTimes(shape.mesh[1].cfg.baseRadius,
                                    RatPlus(Rat(1, 1),
                                            shape.mesh[1].cfg.radialScale)),
                   coeff    |-> Rat(0, 1),
                   root     |-> Rat(0, 1)]

\* The mesh of an s orbital with an exponent other than 1 was built on a
\* sphere with vertices off the axes.
C18_Witness ==
    /\ shape.mesh # <<>>
    /\ shape.config.family = "s"
    /\ shape.mesh[1].cfg.power # Rat(1, 1)
    /\ Axis(1, 2, 2) \in DOMAIN shape.mesh[1].position

\* C21: before the exceptions are applied, the fill for an atomic number
\* Z >= 1 is a prefix of the table: its k-th record is the k-th slot, every
\* record but the last holds its capacity, the last holds what remains
\* (at least one electron), and the prefix ends at the first slot that is
\* not filled or not reached.
C21_BaselinePrefix ==
    \A i \in 1 .. Len(calls) :
        calls[i].atomicNumber >= 1 =>
            LET Z == calls[i].atomicNumber
                filled == calls[i].filled
                last == Len(filled)
            IN  /\ last \in 1 .. Len(OrbitalTable)
                /\ \A k \in 1 .. last :
                       /\ filled[k].n = OrbitalTable[k].n
                       /\ filled[k].l = OrbitalTable[k].l
                       /\ filled[k].capacity = OrbitalTable[k].capacity
                /\ \A k \in 1 .. last - 1 :
                       filled[k].electrons = filled[k].capacity
                /\ filled[last].electrons
                       = MathMin(filled[last].capacity,
                                 Z - SumElectrons(SubSeq(filled, 1, last - 1)))
                /\ filled[last].electrons >= 1
                /\ SumElectrons(filled) = Z \/ last = Len(OrbitalTable)

\* Element 23 was filled: six full slots and three electrons of ten in 3d.
C21_Witness ==
    /\ calls # <<>>
    /\ calls[1].atomicNumber = 23
    /\ Len(calls[1].filled) = 7
    /\ calls[1].filled[7].electrons = 3

\* C22: for an atomic number above 118 the call returns all 19 slots filled
\* to capacity: 118 electrons and not the atomic number.
C22_ExcessDropped ==
    \A i \in 1 .. Len(calls) :
        calls[i].atomicNumber > 118 =>
            /\ Len(calls[i].returned) = 19
            /\ \A k \in 1 .. Len(calls[i].returned) :
                   /\ calls[i].returned[k].n = OrbitalTable[k].n
                   /\ calls[i].returned[k].l = OrbitalTable[k].l
                   /\ calls[i].returned[k].electrons = OrbitalTable[k].capacity
            /\ SumElectrons(calls[i].returned) = 118
            /\ SumElectrons(calls[i].returned) # calls[i].atomicNumber

\* Atomic number 120 was built and its result formatted.
C22_Witness ==
    /\ calls # <<>>
    /\ calls[1].atomicNumber = 120
    /\ Len(calls[1].returned) = 19
    /\ "format" \in called

\* The layout tables in hundredths, and the base radius of the meshes of a
\* subshell group.
TableHundredths(n) == <<55, 95, 145, 195, 245, 295, 345>>[n]

OffsetHundredths(l) ==
    CASE l = "s" -> 0 [] l = "p" -> 18 [] l = "d" -> 38 [] l = "f" -> 58

ScaleHundredths(l) ==
    CASE l = "s" -> 100 [] l = "p" -> 90 [] l = "d" -> 88 [] l = "f" -> 94

BaseRadiusOf(made) == made.ret[1].children[1].orbitalConfig.baseRadius

\* C25, as stated: the base radius is (shellBase(n) + offset) * scale with
\* shellBase(n) the table value for n in 1..7 and 0.55 + 0.5 (n - 1) for any
\* other n, and for a fixed family it is strictly increasing in n = 1, 2, ...
C25_BaseRadius ==
    /\ \A i \in 1 .. Len(layout) :
           layout[i].ret # <<>> =>
               LET n == layout[i].entry.n
                   l == layout[i].entry.l
                   shellBase == IF n \in 1 .. 7 THEN TableHundredths(n)
                                ELSE 55 + 50 * (n - 1)
               IN  BaseRadiusOf(layout[i])
                       = Rat((shellBase + OffsetHundredths(l))
                                 * ScaleHundredths(l), 10000)
    /\ \A i, j \in 1 .. Len(layout) :
           (/\ layout[i].ret # <<>>
            /\ layout[j].ret # <<>>
            /\ layout[i].entry.l = layout[j].entry.l
            /\ layout[i].entry.n >= 1
            /\ layout[i].entry.n < layout[j].entry.n)
               => /\ RatLeq(BaseRadiusOf(layout[i]), BaseRadiusOf(layout[j]))
                  /\ BaseRadiusOf(layout[i]) # BaseRadiusOf(layout[j])

\* C25, amended: off the table shellBase(n) is 0.55 + 0.5 max(0, n - 1),
\* which is 0.55 for every n below 1; the rest as stated.
C25_BaseRadiusFloored ==
    /\ \A i \in 1 .. Len(layout) :
           layout[i].ret # <<>> =>
               LET n == layout[i].entry.n
                   l == layout[i].entry.l
                   shellBase == IF n \in 1 .. 7 THEN TableHundredths(n)
                                ELSE IF n >= 1 THEN 55 + 50 * (n - 1)
                                ELSE 55
               IN  BaseRadiusOf(layout[i])
                       = Rat((shellBase + OffsetHundredths(l))
                                 * ScaleHundredths(l), 10000)
    /\ \A i, j \in 1 .. Len(layout) :
           (/\ layout[i].ret # <<>>
            /\ layout[j].ret # <<>>
            /\ layout[i].entry.l = layout[j].entry.l
            /\ layout[i].entry.n >= 1
            /\ layout[i].entry.n < layout[j].entry.n)
               => /\ RatLeq(BaseRadiusOf(layout[i]), BaseRadiusOf(layout[j]))
                  /\ BaseRadiusOf(layout[i]) # BaseRadiusOf(layout[j])

\* Groups were made for the f subshells of shell 7, the last of the table,
\* and of shell 8.
C25_Witness ==
    /\ Len(layout) = 2
    /\ layout[1].entry.l = "f"
    /\ layout[2].entry.l = "f"
    /\ layout[1].entry.n = 7
    /\ layout[2].entry.n = 8
    /\ layout[2].ret # <<>>

\* The subshell groups of the model that was made, and the opacity of the
\* material of the meshes of one of them.
SubshellGroups ==
    IF model.done /\ model.ret # <<>>
    THEN {g \in {model.ret[1].children[k] :
                     k \in 1 .. Len(model.ret[1].children)} :
              g.type = "subshell"}
    ELSE {}

OpacityHundredths(l) ==
    CASE l = "s" -> 28 [] l = "p" -> 35 [] l = "d" -> 26 [] l = "f" -> 22

OpacityOf(g) == g.children[1].opacity

\* C26: every mesh of a subshell group of a built model has the opacity
\* baseOpacity * (0.55 + 0.45 * occ) with occ = electrons / capacity clamped
\* to [0, 1]; it lies in [0.55 * baseOpacity, baseOpacity], does not
\* decrease with the electrons of the subshells of a family, and a partly
\* filled subshell is strictly less opaque than a full one of its family.
C26_OpacityByOccupancy ==
    /\ \A g \in SubshellGroups :
           LET b == OpacityHundredths(g.family)
               e == MathMax(0, MathMin(g.capacity, g.electrons))
           IN  /\ g.capacity > 0
               /\ \A k \in 1 .. Len(g.children) :
                      g.children[k].opacity
                          = Rat(b * (55 * g.capacity + 45 * e),
                                10000 * g.capacity)
               /\ RatLeq(Rat(55 * b, 10000), OpacityOf(g))
               /\ RatLeq(OpacityOf(g), Rat(b, 100))
               /\ g.electrons < g.capacity => OpacityOf(g) # Rat(b, 100)
    /\ \A g, h \in SubshellGroups :
           (g.family = h.family /\ g.electrons <= h.electrons)
               => /\ RatLeq(OpacityOf(g), OpacityOf(h))
                  /\ (g.electrons < g.capacity /\ h.electrons = h.capacity)
                         => OpacityOf(g) # OpacityOf(h)

\* The model of element 45 was made: its 3d subshell is full and its 4d
\* subshell holds 8 of 10.
C26_Witness ==
    /\ model.done
    /\ model.element = 45
    /\ \E g, h \in SubshellGroups :
           /\ g.family = "d"
           /\ h.family = "d"
           /\ g.electrons = 8
           /\ h.electrons = h.capacity

\* The shape constants of the meshes of a subshell group.
ShapeOf(made) == made.ret[1].children[1].orbitalConfig

\* C27: the meshes of a p or d subshell have a larger radialScale and a
\* larger power than the meshes of an s or f subshell.
C27_SharperLobes ==
    \A i, j \in 1 .. Len(layout) :
        (/\ layout[i].ret # <<>>
         /\ layout[j].ret # <<>>
         /\ layout[i].entry.l \in {"p", "d"}
         /\ layout[j].entry.l \in {"s", "f"})
            => /\ RatLeq(ShapeOf(layout[j]).radialScale,
                         ShapeOf(layout[i]).radialScale)
               /\ ShapeOf(layout[j]).radialScale
                      # ShapeOf(layout[i]).radialScale
               /\ RatLeq(ShapeOf(layout[j]).power, ShapeOf(layout[i]).power)
               /\ ShapeOf(layout[j]).power # ShapeOf(layout[i]).power

\* The size of the amplitude of the orbital of a configuration in the
\* direction v / |v|.
AmplitudeSize(cfg, v) ==
    MathAbs(AsRational(evaluateOrbitalAmplitude(cfg.family, cfg.variant, v),
                       v))

\* A radius without a part in |amp|^0.35.
Plain(x) == [rational |-> x, coeff |-> Rat(0, 1), root |-> Rat(0, 1)]

\* C23: for a family other than s every vertex of the mesh is at the radius
\* baseRadius * (blend + radialScale * |amp|^power) with
\* blend = 0.22 + 0.78 * |amp|^0.35; the radius lies between
\* 0.22 * baseRadius and baseRadius * (1 + radialScale), and is the former
\* where the amplitude is 0 and the latter where its size is 1.  The radius
\* is rational + coeff * root^0.35, and root^0.35 lies in [0, 1] for a root
\* in [0, 1].
C23_VertexRadius ==
    (shape.mesh # <<>> /\ shape.mesh[1].cfg.family # "s") =>
        \A v \in DOMAIN shape.mesh[1].position :
            LET cfg == shape.mesh[1].cfg
                r == shape.mesh[1].position[v].r
                a == AmplitudeSize(cfg, v)
                floor == RatTimes(cfg.baseRadius, Rat(22, 100))
                rise == RatTimes(cfg.baseRadius, Rat(78, 100))
                top == RatTimes(cfg.baseRadius,
                                RatPlus(Rat(1, 1), cfg.radialScale))
                lobe == RatTimes(cfg.baseRadius,
                                 RatTimes(cfg.radialScale,
                                          MathPow(a, cfg.power)))
            IN  /\ r = IF a \in {Rat(0, 1), Rat(1, 1)}
                       THEN Plain(RatPlus(floor,
                                          RatPlus(RatTimes(rise, a), lobe)))
                       ELSE [rational |-> RatPlus(floor, lobe),
                             coeff    |-> rise,
                             root     |-> a]
                /\ RatLeq(floor, r.rational)
                /\ RatLeq(Rat(0, 1), r.coeff)
                /\ RatLeq(Rat(0, 1), r.root)
                /\ RatLeq(r.root, Rat(1, 1))
                /\ RatLeq(RatPlus(r.rational, r.coeff), top)
                /\ a = Rat(0, 1) => r = Plain(floor)
                /\ a = Rat(1, 1) => r = Plain(top)

\* The mesh of px was built on a sphere with a vertex where the amplitude is
\* 1, one where it is 0 and one where it is 1/3.
C23_Witness ==
    /\ shape.mesh # <<>>
    /\ shape.mesh[1].cfg.variant = "px"
    /\ shape.mesh[1].position[Axis(1, 0, 0)].r
           = Plain(RatTimes(shape.mesh[1].cfg.baseRadius,
                            RatPlus(Rat(1, 1), shape.mesh[1].cfg.radialScale)))
    /\ shape.mesh[1].position[Axis(0, 1, 0)].r
           = Plain(RatTimes(shape.mesh[1].cfg.baseRadius, Rat(22, 100)))
    /\ Axis(1, 2, 2) \in DOMAIN shape.mesh[1].position
    /\ shape.mesh[1].position[Axis(1, 2, 2)].r.root = Rat(1, 3)

\* C28: with the configuration the mesh records, the radius of a vertex is
\* never above evaluateOrbitalRadius in its direction; the two are equal
\* only for the s family or where the amplitude is 1 in size; where the
\* amplitude is 0 the vertex is at 0.22 * baseRadius and the radius field is
\* baseRadius.  A radius rational + coeff * root^0.35 with coeff > 0 and
\* 0 < root < 1 lies strictly below rational + coeff.
C28_MeshWithinRadiusField ==
    shape.mesh # <<>> =>
        \A v \in DOMAIN shape.mesh[1].position :
            LET cfg == shape.mesh[1].cfg
                r == shape.mesh[1].position[v].r
                a == AmplitudeSize(cfg, v)
                radius == evaluateOrbitalRadius(cfg, v)
            IN  /\ RatLeq(Rat(0, 1), r.coeff)
                /\ RatLeq(Rat(0, 1), r.root)
                /\ RatLeq(r.root, Rat(1, 1))
                /\ r.coeff # Rat(0, 1) => r.root \notin {Rat(0, 1), Rat(1, 1)}
                /\ RatLeq(RatPlus(r.rational, r.coeff), radius)
                /\ (r.coeff = Rat(0, 1) /\ r.rational = radius)
                       <=> (cfg.family = "s" \/ a = Rat(1, 1))
                /\ (cfg.family # "s" /\ a = Rat(0, 1))
                       => /\ r = Plain(RatTimes(cfg.baseRadius, Rat(22, 100)))
                          /\ radius = cfg.baseRadius

\* The mesh of a d orbital was built with a vertex at a node, one where the
\* amplitude is 1 in size and one where it is neither.
C28_Witness ==
    /\ shape.mesh # <<>>
    /\ shape.mesh[1].cfg.family = "d"
    /\ \E u, v, w \in DOMAIN shape.mesh[1].position :
           /\ AmplitudeSize(shape.mesh[1].cfg, u) = Rat(0, 1)
           /\ AmplitudeSize(shape.mesh[1].cfg, v) = Rat(1, 1)
           /\ AmplitudeSize(shape.mesh[1].cfg, w) \notin {Rat(0, 1), Rat(1, 1)}
           /\ shape.mesh[1].position[w].r.coeff # Rat(0, 1)
           /\ shape.mesh[1].position[u].r.rational
                  # evaluateOrbitalRadius(shape.mesh[1].cfg, u)

\* The amplitude of the orbital of a configuration in the direction v / |v|.
AmplitudeAt(cfg, v) ==
    AsRational(evaluateOrbitalAmplitude(cfg.family, cfg.variant, v), v)

\* C24: the sign recorded for a vertex of the mesh is the phase
\* evaluateOrbitalSDF returns for a position in the direction of the vertex;
\* both are -1 or +1, -1 exactly where the amplitude is negative, and the
\* phase is +1 at the origin.
C24_SignIsPhase ==
    /\ shape.mesh # <<>> =>
           \A v \in DOMAIN shape.mesh[1].position :
               LET sign == shape.mesh[1].position[v].phase
                   cfg == shape.mesh[1].cfg
               IN  /\ sign \in {-1, 1}
                   /\ sign = evaluateOrbitalSDF(cfg, v).phase
                   /\ sign = -1 <=> AmplitudeAt(cfg, v)[1] < 0
    /\ shape.sdf # <<>> =>
           LET position == shape.sdf[1].position
               phase == shape.sdf[1].target.phase
           IN  /\ phase \in {-1, 1}
               /\ position = Axis(0, 0, 0) => phase = 1
               /\ position # Axis(0, 0, 0) =>
                      (phase = -1 <=> AmplitudeAt(shape.config, position)[1] < 0)

\* A mesh was built with a vertex where the amplitude is negative, one where
\* it is positive and one where it is 0 and the sign recorded is +1.
C24_Witness ==
    /\ shape.mesh # <<>>
    /\ \E u, v, w \in DOMAIN shape.mesh[1].position :
           /\ shape.mesh[1].position[u].phase = -1
           /\ AmplitudeAt(shape.mesh[1].cfg, v)[1] > 0
           /\ AmplitudeAt(shape.mesh[1].cfg, w)[1] = 0
           /\ shape.mesh[1].position[w].phase = 1

\* The meshes of the subshell groups of a model.
MeshesOf(group) ==
    UNION {{group.children[k].children[idx] :
                idx \in DOMAIN group.children[k].children} :
               k \in {k \in 1 .. Len(group.children) :
                          group.children[k].type = "subshell"}}

\* The scene holds at most one model; it is the current one, made for the
\* element last given to setElement, and currentConfig is the configuration
\* of the atomic number of currentElement.
OneModelOfSelected ==
    /\ Len(app.scene) <= 1
    /\ app.currentElement = app.selected
    /\ app.selected = Undefined =>
           /\ app.scene = <<>>
           /\ app.currentModel = 0
           /\ app.currentConfig = Undefined
    /\ app.selected # Undefined =>
           /\ Len(app.scene) = 1
           /\ app.scene[1].id = app.currentModel
           /\ app.currentModel = app.created
           /\ app.scene[1].group.element = app.selected
           /\ \A mesh \in MeshesOf(app.scene[1].group) :
                  \E k \in 1 .. Len(Values(heap, app.currentConfig)) :
                      /\ Values(heap, app.currentConfig)[k].n = mesh.shell.n
                      /\ Values(heap, app.currentConfig)[k].l = mesh.shell.l
                      /\ Values(heap, app.currentConfig)[k].electrons
                             = mesh.shell.electrons
           /\ \E built \in {buildElectronConfiguration(
                                heap, app.currentElement)} :
                  Values(heap, app.currentConfig)
                      = Values(built.heap, built.ret)

\* A call of setElement without an element leaves currentElement,
\* currentConfig, currentModel and the scene as they were.
NoneSelected ==
    app'.last = "none" =>
        /\ app'.currentElement = app.currentElement
        /\ app'.currentConfig = app.currentConfig
        /\ app'.currentModel = app.currentModel
        /\ app'.scene = app.scene
        /\ heap' = heap

\* C29: after any sequence of setElement calls the scene holds at most one
\* element model, the model of the element most recently selected, with
\* currentConfig the configuration built from its atomic number; a call
\* without an element changes none of currentElement, currentConfig,
\* currentModel and the scene.
C29_OneModelInScene == []OneModelOfSelected /\ [][NoneSelected]_vars

\* Three elements were selected, the last of them element 58, and then
\* setElement was called without an element.
C29_Witness ==
    /\ app.created = 3
    /\ app.last = "none"
    /\ app.currentElement = 58
    /\ Len(app.scene) = 1
    /\ app.scene[1].id = 3

\* C30: whatever the order of node-toggle changes and element selections,
\* every nodal group of the current model has visible = nodesEnabled.
C30_NodesFollowToggle ==
    app.currentModel # 0 =>
        \A mesh \in MeshesOf(
                        app.scene[SceneModel(app.scene,
                                             app.currentModel)].group) :
            mesh.nodesGroup # <<>> =>
                mesh.nodesGroup[1].visible = app.nodesEnabled

\* The nodes were switched on and an element with nodal groups was selected
\* afterwards, its groups visible.
C30_Witness ==
    /\ app.nodesEnabled
    /\ app.last = "element"
    /\ app.created = 2
    /\ \E mesh \in MeshesOf(app.scene[1].group) :
           /\ mesh.orbital.family = "f"
           /\ mesh.nodesGroup # <<>>
           /\ mesh.nodesGroup[1].visible
====
